---------------------------- MODULE Spec2Model ----------------------------
(***************************************************************************)
(* A model of the NTRIP correction-relay bridge (scripts/ntrip_client.py   *)
(* and scripts/nmea_generator.py).                                         *)
(*                                                                         *)
(* Byte strings are sequences of integers 0..255.  Python indices are      *)
(* 0-based; the helpers below keep the 0-based indices of the source and   *)
(* translate at the point of access.                                       *)
(***************************************************************************)
EXTENDS Integers, Sequences, FiniteSets, TLC

(***************************************************************************)
(* Bounds of the model.                                                    *)
(***************************************************************************)
\* caster sockets the relay loop may create (connect_ntrip_server calls)
MaxSockets == 2
\* cap on the RTCM messages counted in received_rtcm_msgs_ids
MaxCount == 1
\* number of pieces a generated demultiplexer payload is assembled from
MaxPieces == 2

(***************************************************************************)
(* Program constants.                                                      *)
(***************************************************************************)
NOVATEL_OK_ID == 1
RTCM_DATA_PREAMBLE == 211
RESP_ID_OFFSET == 28
RESP_ID_SIZE == 4
CHECKSUM_SIZE == 4
COMMA == 44
CR == 13
LF == 10

binary_header == << 170, 68, 18, 28 >>
ascii_start == << 36, 71, 80 >>
CRLF == << CR, LF >>
GPGGA == << 71, 80, 71, 71, 65 >>

(***************************************************************************)
(* Python bytes/str primitives.                                            *)
(***************************************************************************)
SetMin(S) == CHOOSE x \in S : \A y \in S : x <= y

\* data.startswith(pat, i)
StartsWith(data, pat, i) ==
    /\ i >= 0
    /\ i + Len(pat) <= Len(data)
    /\ \A k \in 1..Len(pat) : data[i + k] = pat[k]

\* data.find(pat, i): lowest index >= i where pat occurs, else -1
Find(data, pat, i) ==
    LET hits == { j \in i..(Len(data) - Len(pat)) : StartsWith(data, pat, j) }
    IN  IF hits = {} THEN -1 ELSE SetMin(hits)

\* pat in data
Contains(data, pat) == Find(data, pat, 0) # -1

\* data[a:b] for 0 <= a, with b clamped as Python clamps it
Slice(data, a, b) ==
    LET hi == IF b > Len(data) THEN Len(data) ELSE b
    IN  IF a >= hi THEN << >> ELSE SubSeq(data, a + 1, hi)

\* data[a:-n] for n > 0
SliceNegEnd(data, a, n) ==
    LET e == Len(data) - n
    IN  Slice(data, a, IF e < 0 THEN 0 ELSE e)

\* an unsigned integer below 2^32 as its low and its high 16 bits: the
\* value of four bytes does not fit the integers of the model checker
Halves(n) == [lo |-> n % 65536, hi |-> n \div 65536]

\* int.from_bytes(b, byteorder='little') for at most four bytes
IntFromLittle(b) ==
    LET byte(k) == IF k <= Len(b) THEN b[k] ELSE 0
    IN  [lo |-> byte(1) + 256 * byte(2), hi |-> byte(3) + 256 * byte(4)]

(***************************************************************************)
(* bytes.decode() / str.encode(): strict UTF-8.  A decoded string is the   *)
(* sequence of its code points.                                            *)
(***************************************************************************)
IsCont(data, i) == i < Len(data) /\ data[i + 1] >= 128 /\ data[i + 1] <= 191

InRange(data, i, lo, hi) ==
    i < Len(data) /\ data[i + 1] >= lo /\ data[i + 1] <= hi

\* number of bytes of the well-formed UTF-8 sequence starting at i, 0 if none
Utf8Width(data, i) ==
    LET b == data[i + 1]
    IN  IF b <= 127 THEN 1
        ELSE IF b >= 194 /\ b <= 223
            THEN IF IsCont(data, i + 1) THEN 2 ELSE 0
        ELSE IF b = 224
            THEN IF InRange(data, i + 1, 160, 191) /\ IsCont(data, i + 2)
                 THEN 3 ELSE 0
        ELSE IF b = 237
            THEN IF InRange(data, i + 1, 128, 159) /\ IsCont(data, i + 2)
                 THEN 3 ELSE 0
        ELSE IF b >= 225 /\ b <= 239
            THEN IF IsCont(data, i + 1) /\ IsCont(data, i + 2) THEN 3 ELSE 0
        ELSE IF b = 240
            THEN IF InRange(data, i + 1, 144, 191) /\ IsCont(data, i + 2)
                    /\ IsCont(data, i + 3)
                 THEN 4 ELSE 0
        ELSE IF b = 244
            THEN IF InRange(data, i + 1, 128, 143) /\ IsCont(data, i + 2)
                    /\ IsCont(data, i + 3)
                 THEN 4 ELSE 0
        ELSE IF b >= 241 /\ b <= 243
            THEN IF IsCont(data, i + 1) /\ IsCont(data, i + 2)
                    /\ IsCont(data, i + 3)
                 THEN 4 ELSE 0
        ELSE 0

Utf8CodePoint(data, i, w) ==
    LET c(k) == data[i + 1 + k] - 128
    IN  IF w = 1 THEN data[i + 1]
        ELSE IF w = 2 THEN (data[i + 1] - 192) * 64 + c(1)
        ELSE IF w = 3 THEN (data[i + 1] - 224) * 4096 + c(1) * 64 + c(2)
        ELSE (data[i + 1] - 240) * 262144 + c(1) * 4096 + c(2) * 64 + c(3)

\* the indices 0 .. n-1 in order
Indices(n) == [k \in 1..n |-> k - 1]

\* data.decode(): [ok |-> TRUE, str |-> code points], or ok = FALSE where
\* Python raises UnicodeDecodeError.  A character starts at every byte
\* that is not a continuation byte (80..BF); the bytes decode iff the first
\* byte starts a character and every character is a well-formed sequence
\* that ends where the next one starts.
decode(data) ==
    LET n == Len(data)
        starts == SelectSeq(Indices(n),
                            LAMBDA i : data[i + 1] < 128 \/ data[i + 1] > 191)
        m == Len(starts)
        stop(k) == IF k < m THEN starts[k + 1] ELSE n
        ok == \/ n = 0
              \/ /\ m > 0
                 /\ starts[1] = 0
                 /\ \A k \in 1..m :
                       LET w == Utf8Width(data, starts[k])
                       IN  w # 0 /\ starts[k] + w = stop(k)
    IN  IF ok
        THEN [ok |-> TRUE,
              str |-> [k \in 1..m |->
                         Utf8CodePoint(data, starts[k],
                                       stop(k) - starts[k])]]
        ELSE [ok |-> FALSE, str |-> << >>]

EncodeCodePoint(c) ==
    IF c <= 127 THEN << c >>
    ELSE IF c <= 2047 THEN << 192 + (c \div 64), 128 + (c % 64) >>
    ELSE IF c <= 65535
        THEN << 224 + (c \div 4096), 128 + ((c \div 64) % 64), 128 + (c % 64) >>
    ELSE << 240 + (c \div 262144), 128 + ((c \div 4096) % 64),
            128 + ((c \div 64) % 64), 128 + (c % 64) >>

\* the encodings of the code points s[lo..hi], concatenated
RECURSIVE EncodeRange(_, _, _)
EncodeRange(s, lo, hi) ==
    IF lo > hi THEN << >>
    ELSE IF lo = hi THEN EncodeCodePoint(s[lo])
    ELSE EncodeRange(s, lo, (lo + hi) \div 2)
            \o EncodeRange(s, ((lo + hi) \div 2) + 1, hi)

\* s.encode()
encode(s) == EncodeRange(s, 1, Len(s))


(***************************************************************************)
(* NMEAGenerator.is_gpgga_data_valid (nmea_generator.py).                  *)
(***************************************************************************)
\* s.split(','): the fields between the commas, one more than there are
\* commas
split(s) ==
    LET n == Len(s)
        commas == SelectSeq([k \in 1..n |-> k], LAMBDA k : s[k] = COMMA)
        m == Len(commas)
        first(k) == IF k = 1 THEN 1 ELSE commas[k - 1] + 1
        last(k) == IF k = m + 1 THEN n ELSE commas[k] - 1
    IN  [k \in 1..(m + 1) |-> SubSeq(s, first(k), last(k))]

\* the characters str.strip() removes, within Latin-1
PyWhitespace == { 9, 10, 11, 12, 13, 28, 29, 30, 31, 32, 133, 160 }

RECURSIVE LStrip(_)
LStrip(s) ==
    IF s # << >> /\ Head(s) \in PyWhitespace THEN LStrip(Tail(s)) ELSE s

RECURSIVE RStrip(_)
RStrip(s) ==
    IF s # << >> /\ s[Len(s)] \in PyWhitespace
    THEN RStrip(SubSeq(s, 1, Len(s) - 1)) ELSE s

\* a decimal digit as int() accepts it: ASCII, and of the other Unicode
\* decimal digits the Arabic-Indic and the fullwidth ones
IsDigit(c) ==
    \/ c >= 48 /\ c <= 57
    \/ c >= 1632 /\ c <= 1641
    \/ c >= 65296 /\ c <= 65305

IsZeroDigit(c) == c \in { 48, 1632, 65296 }

\* int(s): "error" where Python raises ValueError, else "zero" or "nonzero".
\* Accepted: optional surrounding whitespace, an optional sign, then decimal
\* digits in which single underscores may separate digits.
PyInt(s) ==
    LET t == RStrip(LStrip(s))
        u == IF t # << >> /\ Head(t) \in { 43, 45 } THEN Tail(t) ELSE t
        n == Len(u)
        wellFormed ==
            /\ n > 0
            /\ IsDigit(u[1])
            /\ IsDigit(u[n])
            /\ \A k \in 1..n : IsDigit(u[k]) \/ u[k] = 95
            /\ \A k \in 1..(n - 1) : ~(u[k] = 95 /\ u[k + 1] = 95)
    IN  IF ~wellFormed THEN "error"
        ELSE IF \A k \in 1..n : IsZeroDigit(u[k]) \/ u[k] = 95 THEN "zero"
        ELSE "nonzero"

\* Mutant of is_gpgga_data_valid: a quality of zero is accepted.
is_gpgga_data_valid_ZeroQuality(nmea_sentence) ==
    LET fields == split(nmea_sentence)
    IN  IF Len(fields) < 14 \/ Len(fields) > 15 THEN FALSE
        ELSE PyInt(fields[7]) # "error"

\* is_gpgga_data_valid(nmea_sentence), nmea_sentence a decoded string
is_gpgga_data_valid(nmea_sentence) ==
    LET fields == split(nmea_sentence)
    IN  IF Len(fields) < 14 \/ Len(fields) > 15 THEN FALSE
        ELSE PyInt(fields[7]) = "nonzero"

(***************************************************************************)
(* NtripClient.split_data: the receive-buffer demultiplexer.               *)
(***************************************************************************)
\* One iteration of the while loop at index i; the result is the pair
\* << ascii_msgs, binary_msgs >> once i reaches len(data).
RECURSIVE split_loop(_, _, _, _)
split_loop(data, i, ascii_msgs, binary_msgs) ==
    LET length == Len(data)
    IN  IF ~(i < length) THEN << ascii_msgs, binary_msgs >>
        ELSE IF StartsWith(data, binary_header, i)
            THEN LET j == i + Len(binary_header)
                     nb == Find(data, binary_header, j)
                     na == Find(data, ascii_start, j)
                     next_binary_index == IF nb = -1 THEN length ELSE nb
                     next_ascii_index == IF na = -1 THEN length ELSE na
                     end == IF next_binary_index < next_ascii_index
                            THEN next_binary_index ELSE next_ascii_index
                 IN  split_loop(data, end, ascii_msgs,
                                Append(binary_msgs, Slice(data, i, end)))
        ELSE IF StartsWith(data, ascii_start, i)
            THEN LET e == Find(data, CRLF, i)
                     end == IF e = -1 THEN length ELSE e + Len(CRLF)
                 IN  split_loop(data, end,
                                Append(ascii_msgs, Slice(data, i, end)),
                                binary_msgs)
        ELSE split_loop(data, i + 1, ascii_msgs, binary_msgs)

\* Mutant of split_data: an ASCII message ends before its CRLF.
RECURSIVE split_loop_NoCrlf(_, _, _, _)
split_loop_NoCrlf(data, i, ascii_msgs, binary_msgs) ==
    LET length == Len(data)
    IN  IF ~(i < length) THEN << ascii_msgs, binary_msgs >>
        ELSE IF StartsWith(data, binary_header, i)
            THEN LET j == i + Len(binary_header)
                     nb == Find(data, binary_header, j)
                     na == Find(data, ascii_start, j)
                     next_binary_index == IF nb = -1 THEN length ELSE nb
                     next_ascii_index == IF na = -1 THEN length ELSE na
                     end == IF next_binary_index < next_ascii_index
                            THEN next_binary_index ELSE next_ascii_index
                 IN  split_loop_NoCrlf(data, end, ascii_msgs,
                                       Append(binary_msgs, Slice(data, i, end)))
        ELSE IF StartsWith(data, ascii_start, i)
            THEN LET e == Find(data, CRLF, i)
                     end == IF e = -1 THEN length ELSE e
                 IN  split_loop_NoCrlf(data, end,
                                       Append(ascii_msgs, Slice(data, i, end)),
                                       binary_msgs)
        ELSE split_loop_NoCrlf(data, i + 1, ascii_msgs, binary_msgs)

split_data_NoCrlf(data) == split_loop_NoCrlf(data, 0, << >>, << >>)

\* Mutant of split_data: after an ASCII message the scan goes on behind its
\* start marker, not behind its end.
RECURSIVE split_loop_Rescan(_, _, _, _)
split_loop_Rescan(data, i, ascii_msgs, binary_msgs) ==
    LET length == Len(data)
    IN  IF ~(i < length) THEN << ascii_msgs, binary_msgs >>
        ELSE IF StartsWith(data, binary_header, i)
            THEN LET j == i + Len(binary_header)
                     nb == Find(data, binary_header, j)
                     na == Find(data, ascii_start, j)
                     next_binary_index == IF nb = -1 THEN length ELSE nb
                     next_ascii_index == IF na = -1 THEN length ELSE na
                     end == IF next_binary_index < next_ascii_index
                            THEN next_binary_index ELSE next_ascii_index
                 IN  split_loop_Rescan(data, end, ascii_msgs,
                                       Append(binary_msgs, Slice(data, i, end)))
        ELSE IF StartsWith(data, ascii_start, i)
            THEN LET e == Find(data, CRLF, i)
                     end == IF e = -1 THEN length ELSE e + Len(CRLF)
                 IN  split_loop_Rescan(data, i + Len(ascii_start),
                                       Append(ascii_msgs, Slice(data, i, end)),
                                       binary_msgs)
        ELSE split_loop_Rescan(data, i + 1, ascii_msgs, binary_msgs)

split_data_Rescan(data) == split_loop_Rescan(data, 0, << >>, << >>)

split_data(data) == split_loop(data, 0, << >>, << >>)

(***************************************************************************)
(* NtripClient.parse_novatel_binary.                                       *)
(***************************************************************************)
\* The log event of one binary frame: level "debug" (the OK identifier) or
\* "warning" with the decoded payload, or "UnicodeDecodeError" where
\* resp.decode() raises.
parse_novatel_binary(data) ==
    LET resp_id_end == RESP_ID_OFFSET + RESP_ID_SIZE
        resp_id == IntFromLittle(Slice(data, RESP_ID_OFFSET, resp_id_end))
        resp == SliceNegEnd(data, resp_id_end, CHECKSUM_SIZE)
        text == decode(resp)
    IN  IF ~text.ok THEN [level |-> "UnicodeDecodeError", resp |-> << >>]
        ELSE IF resp_id = Halves(NOVATEL_OK_ID)
            THEN [level |-> "debug", resp |-> text.str]
        ELSE [level |-> "warning", resp |-> text.str]

(***************************************************************************)
(* NtripClient.is_rtcm_data, and the success test of the caster handshake. *)
(***************************************************************************)
is_rtcm_data(response_data) == response_data[1] = RTCM_DATA_PREAMBLE

\* b'ICY 200 OK', b'HTTP/1.0 200 OK', b'HTTP/1.1 200 OK'
SuccessTokens ==
    { << 73, 67, 89, 32, 50, 48, 48, 32, 79, 75 >>,
      << 72, 84, 84, 80, 47, 49, 46, 48, 32, 50, 48, 48, 32, 79, 75 >>,
      << 72, 84, 84, 80, 47, 49, 46, 49, 32, 50, 48, 48, 32, 79, 75 >> }

\* Mutant of handshake_ok: any reply that contains b'200 OK' is accepted.
handshake_ok_Any200(response) ==
    Contains(response, << 50, 48, 48, 32, 79, 75 >>)

\* any(success in response for success in [...]); the response is decoded
\* as ISO-8859-1, which maps every byte to the code point of the same value
handshake_ok(response) == \E success \in SuccessTokens : Contains(response, success)

(***************************************************************************)
(* NMEAGenerator._calculate_checksum and generate_gga_sentence.            *)
(*                                                                         *)
(* A coordinate is an integer number of 1/10000 arc minutes (1/600000      *)
(* degree), signed; the altitude an integer number of decimetres.  In      *)
(* these units int(x), (x - deg) * 60 and the 4-decimal rendering are      *)
(* exact.                                                                  *)
(***************************************************************************)
UnitsPerDegree == 600000
UnitsPerMinute == 10000

RECURSIVE Xor(_, _)
Xor(a, b) ==
    IF a = 0 THEN b
    ELSE IF b = 0 THEN a
    ELSE (((a % 2) + (b % 2)) % 2) + 2 * Xor(a \div 2, b \div 2)

HexDigit(d) == IF d < 10 THEN 48 + d ELSE 55 + d

\* checksum ^= ord(char) over the string, then f'{checksum:02X}'
RECURSIVE XorAll(_)
XorAll(nmea_str) ==
    IF nmea_str = << >> THEN 0
    ELSE IF Len(nmea_str) = 1 THEN nmea_str[1]
    ELSE LET half == Len(nmea_str) \div 2
         IN  Xor(XorAll(SubSeq(nmea_str, 1, half)),
                 XorAll(SubSeq(nmea_str, half + 1, Len(nmea_str))))

RECURSIVE HexDigits(_)
HexDigits(n) ==
    IF n < 16 THEN << HexDigit(n) >>
    ELSE Append(HexDigits(n \div 16), HexDigit(n % 16))

calculate_checksum(nmea_str) ==
    LET h == HexDigits(XorAll(nmea_str))
    IN  IF Len(h) < 2 THEN << 48 >> \o h ELSE h

Abs(n) == IF n < 0 THEN -n ELSE n

\* the decimal digits of n >= 0
RECURSIVE DecDigits(_)
DecDigits(n) ==
    IF n < 10 THEN << 48 + n >>
    ELSE Append(DecDigits(n \div 10), 48 + (n % 10))

RECURSIVE Zeros(_)
Zeros(k) == IF k <= 0 THEN << >> ELSE << 48 >> \o Zeros(k - 1)

\* a sign and digits, zero-padded after the sign to a total width of w
ZeroPad(neg, body, w) ==
    LET sign == IF neg THEN << 45 >> ELSE << >>
    IN  sign \o Zeros(w - Len(sign) - Len(body)) \o body

\* f'{n:0wd}'
FormatInt(n, w) == ZeroPad(n < 0, DecDigits(Abs(n)), w)

\* f'{x:0w.df}' for x = m / 10^d
FormatFixed(m, scale, d, w) ==
    LET a == Abs(m)
        frac == DecDigits(a % scale)
        body == DecDigits(a \div scale) \o << 46 >>
                \o Zeros(d - Len(frac)) \o frac
    IN  ZeroPad(m < 0, body, w)

\* int(x): truncation toward zero, in degrees
TruncDegrees(u) ==
    IF u < 0 THEN -(Abs(u) \div UnitsPerDegree) ELSE u \div UnitsPerDegree

\* generate_gga_sentence() for the configured position at UTC time
\* current_time (the six characters HHMMSS)
generate_gga_sentence(fix_latitude, fix_longitude, fix_altitude, current_time) ==
    LET lat_deg == TruncDegrees(fix_latitude)
        lat_min == fix_latitude - lat_deg * UnitsPerDegree
        lat_hemisphere == IF fix_latitude >= 0 THEN 78 ELSE 83
        lon_deg == TruncDegrees(Abs(fix_longitude))
        lon_min == Abs(fix_longitude) - lon_deg * UnitsPerDegree
        lon_hemisphere == IF fix_longitude >= 0 THEN 69 ELSE 87
        gga == GPGGA \o << COMMA >> \o current_time \o << COMMA >>
               \o FormatInt(lat_deg, 2)
               \o FormatFixed(lat_min, UnitsPerMinute, 4, 7)
               \o << COMMA, lat_hemisphere, COMMA >>
               \o FormatInt(lon_deg, 3)
               \o FormatFixed(lon_min, UnitsPerMinute, 4, 7)
               \o << COMMA, lon_hemisphere, COMMA >>
               \* '1,08,0.9,'
               \o << 49, COMMA, 48, 56, COMMA, 48, 46, 57, COMMA >>
               \o FormatFixed(fix_altitude, 10, 1, 0)
               \* ',M,46.9,M,,'
               \o << COMMA, 77, COMMA, 52, 54, 46, 57, COMMA, 77, COMMA, COMMA >>
    IN  << 36 >> \o gga \o << 42 >> \o calculate_checksum(gga)

(***************************************************************************)
(* The environment: what the two peers and the clock may deliver.          *)
(***************************************************************************)
\* b'$GPGGA,123519,4807.038,N,01131.000,E,1,08,0.9,545.4,M,46.9,M,,*47\r\n'
GGA_VALID ==
    << 36, 71, 80, 71, 71, 65, 44, 49, 50, 51, 53, 49, 57, 44, 52, 56,
       48, 55, 46, 48, 51, 56, 44, 78, 44, 48, 49, 49, 51, 49, 46, 48,
       48, 48, 44, 69, 44, 49, 44, 48, 56, 44, 48, 46, 57, 44, 53, 52,
       53, 46, 52, 44, 77, 44, 52, 54, 46, 57, 44, 77, 44, 44, 42, 52,
       55, 13, 10 >>

\* the same sentence with fix quality 0
GGA_NOFIX ==
    << 36, 71, 80, 71, 71, 65, 44, 49, 50, 51, 53, 49, 57, 44, 52, 56,
       48, 55, 46, 48, 51, 56, 44, 78, 44, 48, 49, 49, 51, 49, 46, 48,
       48, 48, 44, 69, 44, 48, 44, 48, 56, 44, 48, 46, 57, 44, 53, 52,
       53, 46, 52, 44, 77, 44, 52, 54, 46, 57, 44, 77, 44, 44, 42, 52,
       54, 13, 10 >>

\* the same sentence with a byte 0xFF in its last field but one
GGA_UNDECODABLE ==
    << 36, 71, 80, 71, 71, 65, 44, 49, 50, 51, 53, 49, 57, 44, 52, 56,
       48, 55, 46, 48, 51, 56, 44, 78, 44, 48, 49, 49, 51, 49, 46, 48,
       48, 48, 44, 69, 44, 49, 44, 48, 56, 44, 48, 46, 57, 44, 53, 52,
       53, 46, 52, 44, 77, 44, 52, 54, 46, 57, 44, 77, 44, 255, 44, 42,
       52, 55, 13, 10 >>

\* b'$GPGGA,123519,4807.038,N,0113': the buffer ends inside the sentence
GGA_TRUNCATED ==
    << 36, 71, 80, 71, 71, 65, 44, 49, 50, 51, 53, 49, 57, 44, 52, 56,
       48, 55, 46, 48, 51, 56, 44, 78, 44, 48, 49, 49, 51 >>

\* b'$GPGGA,123519,4807.038,N,01131.000,E,1,08,0.9,545.4,M,46.9,M,,': the
\* buffer ends before the checksum of GGA_VALID
GGA_CUT == SubSeq(GGA_VALID, 1, Len(GGA_VALID) - 5)

\* b'$GPRMC,123519,A,4807.038,N,01131.000,E,000.0,360.0,230394,,*1E\r\n'
RMC_ONLY ==
    << 36, 71, 80, 82, 77, 67, 44, 49, 50, 51, 53, 49, 57, 44, 65, 44,
       52, 56, 48, 55, 46, 48, 51, 56, 44, 78, 44, 48, 49, 49, 51, 49,
       46, 48, 48, 48, 44, 69, 44, 48, 48, 48, 46, 48, 44, 51, 54, 48,
       46, 48, 44, 50, 51, 48, 51, 57, 52, 44, 44, 42, 49, 69, 13, 10 >>

\* header, 24 bytes, response id 1, b'OK', 4 checksum bytes
BIN_OK ==
    << 170, 68, 18, 28, 0, 0, 0, 0, 0, 0, 0, 0, 0, 0, 0, 0, 0, 0, 0, 0,
       0, 0, 0, 0, 0, 0, 0, 0, 1, 0, 0, 0, 79, 75, 1, 2, 3, 4 >>

\* header, 24 bytes, response id 31, the payload bytes D3 00, 4 checksum bytes
BIN_RAW ==
    << 170, 68, 18, 28, 0, 0, 0, 0, 0, 0, 0, 0, 0, 0, 0, 0, 0, 0, 0, 0,
       0, 0, 0, 0, 0, 0, 0, 0, 31, 0, 0, 0, 211, 0, 1, 2, 3, 4 >>

\* the non-empty chunks gnss_socket.recv may return
TelemetryChunks ==
    { GGA_VALID, GGA_NOFIX, GGA_UNDECODABLE, GGA_TRUNCATED, GGA_CUT,
      RMC_ONLY, BIN_OK \o GGA_VALID, BIN_RAW }

\* the chunks ntrip_socket.recv may return to the handshake: the three
\* success lines, alone and inside a longer reply; refusals; a lower-case
\* look-alike; the empty chunk of a closed connection
HandshakeResponses ==
    { << 73, 67, 89, 32, 50, 48, 48, 32, 79, 75, 13, 10 >>,
      << 72, 84, 84, 80, 47, 49, 46, 48, 32, 50, 48, 48, 32, 79, 75 >>,
      << 120, 72, 84, 84, 80, 47, 49, 46, 49, 32, 50, 48, 48, 32, 79, 75, 13,
         10 >>,
      << 72, 84, 84, 80, 47, 49, 46, 49, 32, 52, 48, 49, 32, 85, 110, 97,
         117, 116, 104, 111, 114, 105, 122, 101, 100, 13, 10 >>,
      << 83, 79, 85, 82, 67, 69, 84, 65, 66, 76, 69, 32, 50, 48, 48, 32,
         79, 75, 13, 10 >>,
      << 72, 84, 84, 80, 47, 49, 46, 48, 32, 50, 48, 48, 32, 111, 107, 13,
         10 >>,
      << 73, 67, 89, 32, 50, 48, 48, 32, 79 >>,
      << >> }

\* the non-empty chunks ntrip_socket.recv may return to the relay loop: a
\* chunk starting with the RTCM preamble, and the text b'ICY'
RTCM_CHUNK == << 211, 0, 2, 62, 208, 1, 2, 3 >>
TEXT_CHUNK == << 73, 67, 89 >>
CasterChunks == { RTCM_CHUNK, TEXT_CHUNK }

\* what RTCMReader.parse yields for a chunk: the identity of the decoded
\* message, or 0 where it raises RTCMParseError
RtcmMsgIds == { 1005, 1077 }
RtcmParseOutcomes == RtcmMsgIds \cup { 0 }

\* what gnss_socket.recv may return to configure_gnss: text, or the bytes
\* of a binary response
AckResponses == { << 60, 79, 75, 13, 10 >>, BIN_RAW }

\* the configured fixed position 48.1173 N, 11.5167 E, 545.4 m
fix_latitude == 48 * UnitsPerDegree + 70380
fix_longitude == 11 * UnitsPerDegree + 310020
fix_altitude == 5454
\* time.strftime('%H%M%S', time.gmtime())
ClockReadings == { << 49, 50, 51, 53, 49, 57 >> }

(***************************************************************************)
(* State.                                                                  *)
(***************************************************************************)
VARIABLES
    \* fields of NtripClient
    ntrip_socket,             \* 0 is None, else the id of a caster socket
    gnss_socket,              \* 0 is None, else 1
    ntrip_connected,
    nmea_request_sent,
    latest_nmea_data_valid,
    stop_event,
    received_rtcm_msgs_ids,
    use_fix_location,
    \* the two threads
    pc_main,                  \* run(), with the calls it makes
    pc_tel,                   \* read_nmea_and_send_to_server()
    server_response,          \* local of read_rtcm_and_send_to_gnss
    tel,                      \* locals of read_nmea_and_send_to_server;
                              \* msg is the segment found to hold GPGGA
    \* the environment
    socks,                    \* the state of each caster socket
    \* observations of the run, read by the properties only
    obs,                      \* what this relay iteration has seen
    conn_call,                \* the connect_ntrip_server call in progress
    last_recv,                \* what the last caster read returned, and the
                              \* message id RTCMReader.parse made of it
    gnss_tx,                  \* the last call of gnss_socket.send
    caster_tx,                \* the last call of ntrip_socket.send by the task
    interrupted,              \* KeyboardInterrupt was delivered
    exc_main,                 \* the exception that left run(), or "none"
    exc_tel,                  \* the exception that ended the task, or "none"
    gnss_link,                \* the receiver connection: "none", "unconnected",
                              \* "up", or "down" once the peer is gone
    fix_written,              \* the caster sockets on which a send of a fix
                              \* by the task has succeeded
    \* the demultiplexer applied to a generated buffer
    demux_in,
    demux_out,
    \* one function of the program applied to one generated argument
    fn_in,
    fn_out

vars ==
    << ntrip_socket, gnss_socket, ntrip_connected, nmea_request_sent,
       latest_nmea_data_valid, stop_event, received_rtcm_msgs_ids,
       use_fix_location, pc_main, pc_tel, server_response, tel, socks, obs,
       conn_call, last_recv, gnss_tx, caster_tx, interrupted, exc_main,
       exc_tel, gnss_link, fix_written, demux_in, demux_out, fn_in, fn_out >>

fields ==
    << ntrip_socket, gnss_socket, ntrip_connected, nmea_request_sent,
       latest_nmea_data_valid, stop_event, received_rtcm_msgs_ids,
       use_fix_location >>

demux_vars == << demux_in, demux_out >>

fn_vars == << fn_in, fn_out >>

SocketIds == 1..MaxSockets

\* the positions of run() inside its while True loop
LoopPcs ==
    { "loop_top", "cn_create", "cn_connect", "cn_send", "cn_recv",
      "chk_valid", "chk_sent", "rd_recv", "rd_forward" }
\* the positions of run() inside its finally clause, and after it
FinallyPcs == { "fin_stop", "fin_join", "fin_disconnect", "done" }
\* the positions at which the telemetry thread has ended
TelEndedPcs == { "t_exit", "t_dead" }

NoObs == [conn |-> FALSE, valid |-> FALSE, sent |-> FALSE]
NoCall == [tcp |-> "none", resp |-> "none", body |-> << >>, ret |-> "none"]
NoRecv == [kind |-> "none", data |-> << >>, parsed |-> 0]
NoGnssTx == [calls |-> 0, data |-> << >>, ok |-> FALSE]
NoCasterTx == [calls |-> 0, sock |-> 0, phase |-> "none", data |-> << >>,
               ok |-> FALSE]
NoTel == [message_bound |-> FALSE, msg |-> << >>, nmea_sentence |-> << >>,
          binary_msgs |-> << >>]
NoDemuxIn == [p1 |-> << >>, sentence |-> << >>, p2 |-> << >>]
NoDemuxOut == [done |-> FALSE, ascii_msgs |-> << >>, binary_msgs |-> << >>]
NoFnIn == [op |-> "none"]
NoFnOut == [done |-> FALSE]

\* NtripClient.__init__
InitFields ==
    /\ ntrip_socket = 0
    /\ gnss_socket = 0
    /\ ntrip_connected = FALSE
    /\ nmea_request_sent = FALSE
    /\ latest_nmea_data_valid = FALSE
    /\ stop_event = FALSE
    /\ received_rtcm_msgs_ids = [id \in RtcmMsgIds |-> 0]
    /\ pc_main = "connect_gnss"
    /\ pc_tel = "not_started"
    /\ server_response = << >>
    /\ tel = NoTel
    /\ socks = [id \in SocketIds |-> "none"]
    /\ obs = NoObs
    /\ conn_call = NoCall
    /\ last_recv = NoRecv
    /\ gnss_tx = NoGnssTx
    /\ caster_tx = NoCasterTx
    /\ interrupted = FALSE
    /\ exc_main = "none"
    /\ exc_tel = "none"
    /\ gnss_link = "none"
    /\ fix_written = {}

Init ==
    /\ InitFields
    /\ use_fix_location \in BOOLEAN
    /\ demux_in = NoDemuxIn
    /\ demux_out = NoDemuxOut
    /\ fn_in = NoFnIn
    /\ fn_out = NoFnOut

(***************************************************************************)
(* run(): start-up.                                                        *)
(***************************************************************************)
\* Mutant of RunConnectGnss: run() goes on after a failed connect.
RunConnectGnss_NoRetry ==
    /\ pc_main = "connect_gnss"
    /\ \E connected \in BOOLEAN :
        /\ gnss_socket' = 1
        /\ gnss_link' = IF connected THEN "up" ELSE "unconnected"
        /\ pc_main' = "configure_gnss"
    /\ UNCHANGED << ntrip_socket, ntrip_connected, nmea_request_sent,
                    latest_nmea_data_valid, stop_event,
                    received_rtcm_msgs_ids, use_fix_location, pc_tel,
                    server_response, tel, socks, obs, conn_call, last_recv,
                    gnss_tx, caster_tx, interrupted, exc_main, exc_tel,
                    demux_vars, fn_vars, fix_written >>

\* while not self.connect_to_gnss(): time.sleep(...)
RunConnectGnss ==
    /\ pc_main = "connect_gnss"
    /\ \E connected \in BOOLEAN :
        /\ gnss_socket' = 1
        /\ gnss_link' = IF connected THEN "up" ELSE "unconnected"
        /\ pc_main' = IF connected THEN "configure_gnss" ELSE "connect_gnss"
    /\ UNCHANGED << ntrip_socket, ntrip_connected, nmea_request_sent,
                    latest_nmea_data_valid, stop_event,
                    received_rtcm_msgs_ids, use_fix_location, pc_tel,
                    server_response, tel, socks, obs, conn_call, last_recv,
                    gnss_tx, caster_tx, interrupted, exc_main, exc_tel,
                    demux_vars, fn_vars, fix_written >>

\* self.configure_gnss(): sendall, then recv(...).decode('utf-8'); OSError and
\* socket.timeout are caught, UnicodeDecodeError is not and leaves run()
\* before its try statement
RunConfigureGnss ==
    /\ pc_main = "configure_gnss"
    /\ \E io \in { "send_error", "recv_error", "data" } :
       \E response \in AckResponses :
          IF io = "data" /\ ~decode(response).ok
          THEN /\ pc_main' = "aborted"
               /\ exc_main' = "UnicodeDecodeError"
          ELSE /\ pc_main' = "start_thread"
               /\ UNCHANGED exc_main
    /\ UNCHANGED << fields, pc_tel, server_response, tel, socks, obs,
                    conn_call, last_recv, gnss_tx, caster_tx, interrupted,
                    exc_tel, demux_vars,
                    fn_vars, gnss_link, fix_written >>

\* self.gnss_log_thread = threading.Thread(...); self.gnss_log_thread.start()
RunStartThread ==
    /\ pc_main = "start_thread"
    /\ pc_main' = "loop_top"
    /\ pc_tel' = "t_top"
    /\ UNCHANGED << fields, server_response, tel, socks, obs, conn_call,
                    last_recv, gnss_tx, caster_tx, interrupted, exc_main,
                    exc_tel, demux_vars,
                    fn_vars, gnss_link, fix_written >>

(***************************************************************************)
(* run(): the relay loop, with connect_ntrip_server and                    *)
(* read_rtcm_and_send_to_gnss.                                             *)
(***************************************************************************)
\* Mutant of LoopTop: every iteration calls connect_ntrip_server.
LoopTop_AlwaysConnects ==
    /\ pc_main = "loop_top"
    /\ pc_main' = "cn_create"
    /\ obs' = [NoObs EXCEPT !.conn = ntrip_connected]
    /\ conn_call' = NoCall
    /\ last_recv' = NoRecv
    /\ gnss_tx' = NoGnssTx
    /\ UNCHANGED << fields, pc_tel, server_response, tel, socks, caster_tx,
                    interrupted, exc_main, exc_tel, demux_vars,
                    fn_vars, gnss_link, fix_written >>

\* while True: if not self.ntrip_connected: ...
LoopTop ==
    /\ pc_main = "loop_top"
    /\ pc_main' = IF ntrip_connected THEN "chk_valid" ELSE "cn_create"
    /\ obs' = [NoObs EXCEPT !.conn = ntrip_connected]
    /\ conn_call' = NoCall
    /\ last_recv' = NoRecv
    /\ gnss_tx' = NoGnssTx
    /\ UNCHANGED << fields, pc_tel, server_response, tel, socks, caster_tx,
                    interrupted, exc_main, exc_tel, demux_vars,
                    fn_vars, gnss_link, fix_written >>

\* Mutant of CnCreate: a new connection attempt clears nmea_request_sent.
CnCreate_ResetsSent ==
    /\ pc_main = "cn_create"
    /\ \E id \in SocketIds :
        /\ socks[id] = "none"
        /\ \A other \in SocketIds : other < id => socks[other] # "none"
        /\ ntrip_socket' = id
        /\ socks' = [k \in SocketIds |->
                        IF k = id THEN "created"
                        ELSE IF k = ntrip_socket THEN "abandoned"
                        ELSE socks[k]]
    /\ conn_call' = [NoCall EXCEPT !.ret = "pending"]
    /\ pc_main' = "cn_connect"
    /\ nmea_request_sent' = FALSE
    /\ UNCHANGED << gnss_socket, ntrip_connected,
                    latest_nmea_data_valid, stop_event,
                    received_rtcm_msgs_ids, use_fix_location, pc_tel,
                    server_response, tel, obs, last_recv, gnss_tx, caster_tx,
                    interrupted, exc_main, exc_tel, demux_vars,
                    fn_vars, gnss_link, fix_written >>

\* connect_ntrip_server: self.ntrip_socket = socket.socket(...); settimeout.
\* The socket the field held before is not closed by the program: it is
\* left as it was, and no reference of the program leads to it any more.
CnCreate ==
    /\ pc_main = "cn_create"
    /\ \E id \in SocketIds :
        /\ socks[id] = "none"
        /\ \A other \in SocketIds : other < id => socks[other] # "none"
        /\ ntrip_socket' = id
        /\ socks' = [k \in SocketIds |->
                        IF k = id THEN "created"
                        ELSE IF k = ntrip_socket THEN "abandoned"
                        ELSE socks[k]]
    /\ conn_call' = [NoCall EXCEPT !.ret = "pending"]
    /\ pc_main' = "cn_connect"
    /\ UNCHANGED << gnss_socket, ntrip_connected, nmea_request_sent,
                    latest_nmea_data_valid, stop_event,
                    received_rtcm_msgs_ids, use_fix_location, pc_tel,
                    server_response, tel, obs, last_recv, gnss_tx, caster_tx,
                    interrupted, exc_main, exc_tel, demux_vars,
                    fn_vars, gnss_link, fix_written >>

\* connect_ntrip_server: self.ntrip_socket.connect(...); gaierror, timeout
\* and OSError return False, and run() sleeps and continues
CnConnect ==
    /\ pc_main = "cn_connect"
    /\ \E connected \in BOOLEAN :
        IF connected
        THEN /\ socks' = [socks EXCEPT ![ntrip_socket] = "tcp"]
             /\ conn_call' = [conn_call EXCEPT !.tcp = "ok"]
             /\ pc_main' = "cn_send"
        ELSE /\ socks' = [socks EXCEPT ![ntrip_socket] = "failed"]
             /\ conn_call' = [conn_call EXCEPT !.tcp = "error",
                                               !.ret = "false"]
             /\ pc_main' = "loop_top"
    /\ UNCHANGED << fields, pc_tel, server_response, tel, obs, last_recv,
                    gnss_tx, caster_tx, interrupted, exc_main, exc_tel,
                    demux_vars,
                    fn_vars, gnss_link, fix_written >>

\* connect_ntrip_server: self.ntrip_socket.send(request.encode()), outside
\* any try: an OSError leaves connect_ntrip_server and the while loop of
\* run(), whose try has no handler for it, and reaches the finally clause
CnSend ==
    /\ pc_main = "cn_send"
    /\ \E sent \in BOOLEAN :
        IF sent
        THEN /\ socks' = [socks EXCEPT ![ntrip_socket] = "requested"]
             /\ pc_main' = "cn_recv"
             /\ UNCHANGED << conn_call, exc_main >>
        ELSE /\ conn_call' = [conn_call EXCEPT !.ret = "raised"]
             /\ exc_main' = "OSError"
             /\ pc_main' = "fin_stop"
             /\ UNCHANGED socks
    /\ UNCHANGED << fields, pc_tel, server_response, tel, obs, last_recv,
                    gnss_tx, caster_tx, interrupted, exc_tel, demux_vars,
                    fn_vars, gnss_link, fix_written >>

\* connect_ntrip_server: response = recv(...).decode('ISO-8859-1'); a read
\* error returns False; a success token sets ntrip_connected and returns
\* True; anything else returns False
CnRecv ==
    /\ pc_main = "cn_recv"
    /\ \E io \in { "error", "data" } :
       \E response \in HandshakeResponses :
          IF io = "error"
          THEN /\ conn_call' = [conn_call EXCEPT !.resp = "error",
                                                 !.ret = "false"]
               /\ pc_main' = "loop_top"
               /\ UNCHANGED << ntrip_connected, socks, obs >>
          ELSE IF handshake_ok(response)
          THEN /\ ntrip_connected' = TRUE
               /\ socks' = [socks EXCEPT ![ntrip_socket] = "ok"]
               /\ conn_call' = [conn_call EXCEPT !.resp = "data",
                                                 !.body = response,
                                                 !.ret = "true"]
               /\ obs' = [obs EXCEPT !.conn = TRUE]
               /\ pc_main' = "chk_valid"
          ELSE /\ socks' = [socks EXCEPT ![ntrip_socket] = "rejected"]
               /\ conn_call' = [conn_call EXCEPT !.resp = "data",
                                                 !.body = response,
                                                 !.ret = "false"]
               /\ pc_main' = "loop_top"
               /\ UNCHANGED << ntrip_connected, obs >>
    /\ UNCHANGED << ntrip_socket, gnss_socket, nmea_request_sent,
                    latest_nmea_data_valid, stop_event,
                    received_rtcm_msgs_ids, use_fix_location, pc_tel,
                    server_response, tel, last_recv, gnss_tx, caster_tx,
                    interrupted, exc_main, exc_tel, demux_vars,
                    fn_vars, gnss_link, fix_written >>

\* if not self.latest_nmea_data_valid: sleep; continue
ChkValid ==
    /\ pc_main = "chk_valid"
    /\ pc_main' = IF latest_nmea_data_valid THEN "chk_sent" ELSE "loop_top"
    /\ obs' = [obs EXCEPT !.valid = latest_nmea_data_valid]
    /\ conn_call' = NoCall
    /\ UNCHANGED << fields, pc_tel, server_response, tel, socks, last_recv,
                    gnss_tx, caster_tx, interrupted, exc_main, exc_tel,
                    demux_vars,
                    fn_vars, gnss_link, fix_written >>

\* Mutant of ChkSent: the loop goes on to the read without a fix sent.
ChkSent_NoWait ==
    /\ pc_main = "chk_sent"
    /\ pc_main' = "rd_recv"
    /\ obs' = [obs EXCEPT !.sent = nmea_request_sent]
    /\ UNCHANGED << fields, pc_tel, server_response, tel, socks, conn_call,
                    last_recv, gnss_tx, caster_tx, interrupted, exc_main,
                    exc_tel, demux_vars,
                    fn_vars, gnss_link, fix_written >>

\* if not self.nmea_request_sent: sleep; continue
ChkSent ==
    /\ pc_main = "chk_sent"
    /\ pc_main' = IF nmea_request_sent THEN "rd_recv" ELSE "loop_top"
    /\ obs' = [obs EXCEPT !.sent = nmea_request_sent]
    /\ UNCHANGED << fields, pc_tel, server_response, tel, socks, conn_call,
                    last_recv, gnss_tx, caster_tx, interrupted, exc_main,
                    exc_tel, demux_vars,
                    fn_vars, gnss_link, fix_written >>

\* what ntrip_socket.recv may do on a socket in the given state: a closed
\* peer keeps returning the empty chunk
CasterRecvKinds(state) ==
    IF state = "eof" THEN { "empty" }
    ELSE { "timeout", "oserror", "empty", "data" }

\* Mutant of RdRecv: the chunk is parsed and counted whatever its first byte.
RdRecv_CountsAnyChunk ==
    /\ pc_main = "rd_recv"
    /\ \E kind \in CasterRecvKinds(socks[ntrip_socket]) :
       \E chunk \in CasterChunks :
       \E parsed \in RtcmParseOutcomes :
          /\ parsed # 0 => received_rtcm_msgs_ids[1005]
                               + received_rtcm_msgs_ids[1077] < MaxCount
          /\ last_recv' = [kind |-> kind,
                           data |-> IF kind = "data" THEN chunk ELSE << >>,
                           parsed |-> IF kind = "data" /\ is_rtcm_data(chunk)
                                      THEN parsed ELSE 0]
          /\ IF kind = "timeout"
             THEN /\ ntrip_connected' = FALSE
                  /\ pc_main' = "loop_top"
                  /\ UNCHANGED << received_rtcm_msgs_ids, server_response,
                                  socks, exc_main >>
             ELSE IF kind = "oserror"
             THEN /\ exc_main' = "OSError"
                  /\ pc_main' = "fin_stop"
                  /\ UNCHANGED << ntrip_connected, received_rtcm_msgs_ids,
                                  server_response, socks >>
             ELSE IF kind = "empty"
             THEN /\ socks' = [socks EXCEPT ![ntrip_socket] = "eof"]
                  /\ server_response' = << >>
                  /\ pc_main' = "loop_top"
                  /\ UNCHANGED << ntrip_connected, received_rtcm_msgs_ids,
                                  exc_main >>
             ELSE /\ server_response' = chunk
                  /\ received_rtcm_msgs_ids' =
                        IF parsed # 0
                        THEN [received_rtcm_msgs_ids EXCEPT
                                 ![parsed] = @ + 1]
                        ELSE received_rtcm_msgs_ids
                  /\ pc_main' = "rd_forward"
                  /\ UNCHANGED << ntrip_connected, socks, exc_main >>
    /\ UNCHANGED << ntrip_socket, gnss_socket, nmea_request_sent,
                    latest_nmea_data_valid, stop_event, use_fix_location,
                    pc_tel, tel, obs, conn_call, gnss_tx, caster_tx,
                    interrupted, exc_tel, demux_vars,
                    fn_vars, gnss_link, fix_written >>

\* read_rtcm_and_send_to_gnss up to the call of send_rtcm_to_gnss: the
\* read, is_rtcm_data, RTCMReader.parse and the counter.  socket.timeout
\* clears ntrip_connected; any other OSError is not caught, here or in
\* run(), and reaches the finally clause; the empty chunk sleeps and returns
RdRecv ==
    /\ pc_main = "rd_recv"
    /\ \E kind \in CasterRecvKinds(socks[ntrip_socket]) :
       \E chunk \in CasterChunks :
       \E parsed \in RtcmParseOutcomes :
          /\ parsed # 0 => received_rtcm_msgs_ids[1005]
                               + received_rtcm_msgs_ids[1077] < MaxCount
          /\ last_recv' = [kind |-> kind,
                           data |-> IF kind = "data" THEN chunk ELSE << >>,
                           parsed |-> IF kind = "data" /\ is_rtcm_data(chunk)
                                      THEN parsed ELSE 0]
          /\ IF kind = "timeout"
             THEN /\ ntrip_connected' = FALSE
                  /\ pc_main' = "loop_top"
                  /\ UNCHANGED << received_rtcm_msgs_ids, server_response,
                                  socks, exc_main >>
             ELSE IF kind = "oserror"
             THEN /\ exc_main' = "OSError"
                  /\ pc_main' = "fin_stop"
                  /\ UNCHANGED << ntrip_connected, received_rtcm_msgs_ids,
                                  server_response, socks >>
             ELSE IF kind = "empty"
             THEN /\ socks' = [socks EXCEPT ![ntrip_socket] = "eof"]
                  /\ server_response' = << >>
                  /\ pc_main' = "loop_top"
                  /\ UNCHANGED << ntrip_connected, received_rtcm_msgs_ids,
                                  exc_main >>
             ELSE /\ server_response' = chunk
                  /\ received_rtcm_msgs_ids' =
                        IF is_rtcm_data(chunk) /\ parsed # 0
                        THEN [received_rtcm_msgs_ids EXCEPT
                                 ![parsed] = @ + 1]
                        ELSE received_rtcm_msgs_ids
                  /\ pc_main' = "rd_forward"
                  /\ UNCHANGED << ntrip_connected, socks, exc_main >>
    /\ UNCHANGED << ntrip_socket, gnss_socket, nmea_request_sent,
                    latest_nmea_data_valid, stop_event, use_fix_location,
                    pc_tel, tel, obs, conn_call, gnss_tx, caster_tx,
                    interrupted, exc_tel, demux_vars,
                    fn_vars, gnss_link, fix_written >>

\* Mutant of RdForward: only chunks that start with the RTCM preamble are
\* forwarded.
RdForward_OnlyRtcm ==
    /\ pc_main = "rd_forward"
    /\ \E sent \in BOOLEAN :
        gnss_tx' = IF gnss_socket # 0 /\ is_rtcm_data(server_response)
                   THEN [calls |-> gnss_tx.calls + 1,
                         data |-> server_response, ok |-> sent]
                   ELSE gnss_tx
    /\ pc_main' = "loop_top"
    /\ UNCHANGED << fields, pc_tel, server_response, tel, socks, obs,
                    conn_call, last_recv, caster_tx, interrupted, exc_main,
                    exc_tel, demux_vars,
                    fn_vars, gnss_link, fix_written >>

\* Mutant of RdForward: a failed send drops the caster session.
RdForward_FailureDisconnects ==
    /\ pc_main = "rd_forward"
    /\ \E sent \in BOOLEAN :
        /\ gnss_tx' = IF gnss_socket # 0
                      THEN [calls |-> gnss_tx.calls + 1,
                            data |-> server_response, ok |-> sent]
                      ELSE gnss_tx
        /\ ntrip_connected' = IF sent THEN ntrip_connected ELSE FALSE
    /\ pc_main' = "loop_top"
    /\ UNCHANGED << ntrip_socket, gnss_socket, nmea_request_sent,
                    latest_nmea_data_valid, stop_event,
                    received_rtcm_msgs_ids, use_fix_location, pc_tel,
                    server_response, tel, socks, obs, conn_call, last_recv,
                    caster_tx, interrupted, exc_main, exc_tel, demux_vars,
                    fn_vars, gnss_link, fix_written >>

\* self.send_rtcm_to_gnss(server_response): gnss_socket.send; OSError and
\* socket.timeout are logged
RdForward ==
    /\ pc_main = "rd_forward"
    /\ \E sent \in BOOLEAN :
        gnss_tx' = IF gnss_socket # 0
                   THEN [calls |-> gnss_tx.calls + 1,
                         data |-> server_response, ok |-> sent]
                   ELSE gnss_tx
    /\ pc_main' = "loop_top"
    /\ UNCHANGED << fields, pc_tel, server_response, tel, socks, obs,
                    conn_call, last_recv, caster_tx, interrupted, exc_main,
                    exc_tel, demux_vars,
                    fn_vars, gnss_link, fix_written >>

(***************************************************************************)
(* run(): KeyboardInterrupt and the finally clause.                        *)
(***************************************************************************)
\* KeyboardInterrupt raised in the main thread inside the while loop
Interrupt ==
    /\ pc_main \in LoopPcs
    /\ interrupted' = TRUE
    /\ pc_main' = "fin_stop"
    /\ server_response' = << >>
    /\ obs' = NoObs
    /\ conn_call' = NoCall
    /\ last_recv' = NoRecv
    /\ gnss_tx' = NoGnssTx
    /\ UNCHANGED << fields, pc_tel, tel, socks, caster_tx, exc_main,
                    exc_tel, demux_vars,
                    fn_vars, gnss_link, fix_written >>

\* finally: self.stop_event.set()
FinStop ==
    /\ pc_main = "fin_stop"
    /\ stop_event' = TRUE
    /\ pc_main' = "fin_join"
    /\ server_response' = << >>
    /\ obs' = NoObs
    /\ conn_call' = NoCall
    /\ last_recv' = NoRecv
    /\ gnss_tx' = NoGnssTx
    /\ UNCHANGED << ntrip_socket, gnss_socket, ntrip_connected,
                    nmea_request_sent, latest_nmea_data_valid,
                    received_rtcm_msgs_ids, use_fix_location, pc_tel, tel,
                    socks, caster_tx, interrupted, exc_main, exc_tel,
                    demux_vars,
                    fn_vars, gnss_link, fix_written >>

\* Mutant of FinJoin: the join returns while the thread is still running.
FinJoin_NoWait ==
    /\ pc_main = "fin_join"
    /\ pc_main' = "fin_disconnect"
    /\ UNCHANGED << fields, pc_tel, server_response, tel, socks, obs,
                    conn_call, last_recv, gnss_tx, caster_tx, interrupted,
                    exc_main, exc_tel, demux_vars,
                    fn_vars, gnss_link, fix_written >>

\* self.gnss_log_thread.join(): returns once the thread has ended
FinJoin ==
    /\ pc_main = "fin_join"
    /\ pc_tel \in TelEndedPcs
    /\ pc_main' = "fin_disconnect"
    /\ UNCHANGED << fields, pc_tel, server_response, tel, socks, obs,
                    conn_call, last_recv, gnss_tx, caster_tx, interrupted,
                    exc_main, exc_tel, demux_vars,
                    fn_vars, gnss_link, fix_written >>

\* self.disconnect_ntrip_server(): the flag, then shutdown and close of the
\* socket if there is one, their errors logged
FinDisconnect ==
    /\ pc_main = "fin_disconnect"
    /\ ntrip_connected' = FALSE
    /\ socks' = IF ntrip_socket # 0
                THEN [socks EXCEPT ![ntrip_socket] = "closed"]
                ELSE socks
    /\ pc_main' = "done"
    /\ UNCHANGED << ntrip_socket, gnss_socket, nmea_request_sent,
                    latest_nmea_data_valid, stop_event,
                    received_rtcm_msgs_ids, use_fix_location, pc_tel,
                    server_response, tel, obs, conn_call, last_recv, gnss_tx,
                    caster_tx, interrupted, exc_main, exc_tel, demux_vars,
                    fn_vars, gnss_link, fix_written >>

(***************************************************************************)
(* read_nmea_and_send_to_server(): the telemetry thread, with              *)
(* send_nmea_to_ntrip_server.                                              *)
(***************************************************************************)
\* next((msg.decode() for msg in ascii_msgs if b'GPGGA' in msg), None):
\* the first segment that contains GPGGA, before it is decoded; << >> if
\* there is none
FirstGpgga(ascii_msgs) ==
    LET hits == SelectSeq(ascii_msgs, LAMBDA msg : Contains(msg, GPGGA))
    IN  IF hits = << >> THEN << >> ELSE hits[1]

\* Mutant of SelectSentence: the receiver's sentence is handed on whether
\* or not it was judged valid.
SelectSentence_SendsInvalid(fix_location, nmea_sentence, generated_sentence) ==
    IF fix_location
    THEN [valid |-> TRUE, send |-> generated_sentence]
    ELSE [valid |-> is_gpgga_data_valid(nmea_sentence),
          send |-> nmea_sentence]

\* the branch on use_fix_location: the value stored in
\* latest_nmea_data_valid and the sentence handed to
\* send_nmea_to_ntrip_server (<< >> when none is)
SelectSentence(fix_location, nmea_sentence, generated_sentence) ==
    IF fix_location
    THEN [valid |-> TRUE, send |-> generated_sentence]
    ELSE LET valid == is_gpgga_data_valid(nmea_sentence)
         IN  [valid |-> valid,
              send |-> IF valid THEN nmea_sentence ELSE << >>]

\* where the loop body goes on after the sentence: the binary messages, if
\* any, else the next iteration
AfterSentence(binary_msgs) ==
    IF binary_msgs = << >> THEN "t_top" ELSE "t_binary"

\* ascii_msgs, binary_msgs = self.split_data(message), for each chunk the
\* receiver can send
Demuxed == [message \in TelemetryChunks |-> split_data(message)]

\* msg.decode() of the first GPGGA segment of each chunk
Decoded == [message \in TelemetryChunks |-> decode(FirstGpgga(Demuxed[message][1]))]

\* self.nmea_generator.generate_gga_sentence(fix_latitude, fix_longitude,
\* fix_altitude) at each reading of the clock
Generated ==
    [current_time \in ClockReadings |->
        generate_gga_sentence(fix_latitude, fix_longitude, fix_altitude,
                              current_time)]

\* the outcome of the branch on use_fix_location for each chunk and clock
\* reading
Selected ==
    [fix_location \in BOOLEAN, message \in TelemetryChunks,
     current_time \in ClockReadings |->
        SelectSentence(fix_location, Decoded[message].str,
                       Generated[current_time])]

\* while not self.stop_event.is_set(): if not self.gnss_socket: sleep
TelTop ==
    /\ pc_tel = "t_top"
    /\ pc_tel' = IF stop_event THEN "t_exit"
                 ELSE IF gnss_socket = 0 THEN "t_top"
                 ELSE "t_recv"
    /\ tel' = [NoTel EXCEPT !.message_bound = tel.message_bound]
    /\ caster_tx' = NoCasterTx
    /\ UNCHANGED << fields, pc_main, server_response, socks, obs, conn_call,
                    last_recv, gnss_tx, interrupted, exc_main, exc_tel,
                    demux_vars,
                    fn_vars, gnss_link, fix_written >>

\* message = self.gnss_socket.recv(...) and the body of the try up to the
\* call of send_nmea_to_ntrip_server.  socket.timeout is logged.  The
\* handler of OSError logs message, which is unbound if no recv has
\* returned yet: UnboundLocalError ends the thread.  msg.decode() raises
\* UnicodeDecodeError, which no handler catches.
TelRecv ==
    /\ pc_tel = "t_recv"
    /\ \/ \* socket.timeout
          /\ gnss_link = "up"
          /\ pc_tel' = "t_top"
          /\ UNCHANGED << latest_nmea_data_valid, tel, exc_tel, gnss_link >>
       \/ \* OSError: the connection is gone
          /\ gnss_link' = "down"
          /\ pc_tel' = IF tel.message_bound THEN "t_top" ELSE "t_dead"
          /\ exc_tel' = IF tel.message_bound THEN exc_tel
                        ELSE "UnboundLocalError"
          /\ UNCHANGED << latest_nmea_data_valid, tel >>
       \/ \* if not message: continue (the receiver has closed)
          /\ gnss_link' = "down"
          /\ tel' = [tel EXCEPT !.message_bound = TRUE]
          /\ pc_tel' = "t_top"
          /\ UNCHANGED << latest_nmea_data_valid, exc_tel >>
       \/ \E message \in TelemetryChunks :
          \E current_time \in ClockReadings :
             /\ gnss_link = "up"
             /\ UNCHANGED gnss_link
             /\ LET parts == Demuxed[message]
                    raw == FirstGpgga(parts[1])
                    text == Decoded[message]
                    sel == Selected[use_fix_location, message, current_time]
                IN  IF raw = << >>
                    THEN /\ tel' = [message_bound |-> TRUE,
                                    msg |-> << >>,
                                    nmea_sentence |-> << >>,
                                    binary_msgs |-> parts[2]]
                         /\ pc_tel' = AfterSentence(parts[2])
                         /\ UNCHANGED << latest_nmea_data_valid, exc_tel >>
                    ELSE IF ~text.ok
                    THEN /\ tel' = [tel EXCEPT !.message_bound = TRUE,
                                               !.msg = raw]
                         /\ pc_tel' = "t_dead"
                         /\ exc_tel' = "UnicodeDecodeError"
                         /\ UNCHANGED latest_nmea_data_valid
                    ELSE /\ latest_nmea_data_valid' = sel.valid
                         /\ tel' = [message_bound |-> TRUE,
                                    msg |-> raw,
                                    nmea_sentence |-> sel.send,
                                    binary_msgs |-> parts[2]]
                         /\ pc_tel' = IF sel.send # << >> THEN "t_send_check"
                                      ELSE AfterSentence(parts[2])
                         /\ UNCHANGED exc_tel
    /\ UNCHANGED << ntrip_socket, gnss_socket, ntrip_connected,
                    nmea_request_sent, stop_event, received_rtcm_msgs_ids,
                    use_fix_location, pc_main, server_response, socks, obs,
                    conn_call, last_recv, gnss_tx, caster_tx, interrupted,
                    exc_main, demux_vars, fn_vars, fix_written >>

\* send_nmea_to_ntrip_server: if not self.ntrip_connected: sleep; return
TelSendCheck ==
    /\ pc_tel = "t_send_check"
    /\ pc_tel' = IF ntrip_connected THEN "t_send_write"
                 ELSE AfterSentence(tel.binary_msgs)
    /\ UNCHANGED << fields, pc_main, server_response, tel, socks, obs,
                    conn_call, last_recv, gnss_tx, caster_tx, interrupted,
                    exc_main, exc_tel, demux_vars,
                    fn_vars, gnss_link, fix_written >>

\* whether a send on a caster socket in the given state can succeed
CanWrite(state) == state \in { "tcp", "requested", "rejected", "ok", "eof" }

\* Mutant of TelSendWrite: a failed write leaves ntrip_connected set.
TelSendWrite_StaysConnected ==
    /\ pc_tel = "t_send_write"
    /\ \E sent \in BOOLEAN :
        /\ sent => socks[ntrip_socket]
                       \in { "tcp", "requested", "rejected", "ok", "eof" }
        /\ caster_tx' = [calls |-> caster_tx.calls + 1,
                         sock |-> ntrip_socket,
                         phase |-> socks[ntrip_socket],
                         data |-> encode(tel.nmea_sentence \o CRLF),
                         ok |-> sent]
        /\ fix_written' = IF sent THEN fix_written \cup { ntrip_socket }
                         ELSE fix_written
        /\ nmea_request_sent' = sent
    /\ pc_tel' = IF tel.binary_msgs = << >> THEN "t_top" ELSE "t_binary"
    /\ UNCHANGED << ntrip_socket, gnss_socket, ntrip_connected,
                    latest_nmea_data_valid, stop_event,
                    received_rtcm_msgs_ids, use_fix_location, pc_main,
                    server_response, tel, socks, obs, conn_call, last_recv,
                    gnss_tx, interrupted, exc_main, exc_tel, demux_vars,
                    fn_vars, gnss_link >>

\* Mutant of TelSendWrite: a successful write does not set nmea_request_sent.
TelSendWrite_NeverMarksSent ==
    /\ pc_tel = "t_send_write"
    /\ \E sent \in BOOLEAN :
        /\ sent => CanWrite(socks[ntrip_socket])
        /\ caster_tx' = [calls |-> caster_tx.calls + 1,
                         sock |-> ntrip_socket,
                         phase |-> socks[ntrip_socket],
                         data |-> encode(tel.nmea_sentence \o CRLF),
                         ok |-> sent]
        /\ fix_written' = IF sent THEN fix_written \cup { ntrip_socket }
                         ELSE fix_written
        /\ nmea_request_sent' = FALSE
        /\ ntrip_connected' = IF sent THEN ntrip_connected ELSE FALSE
    /\ pc_tel' = AfterSentence(tel.binary_msgs)
    /\ UNCHANGED << ntrip_socket, gnss_socket, latest_nmea_data_valid,
                    stop_event, received_rtcm_msgs_ids, use_fix_location,
                    pc_main, server_response, tel, socks, obs, conn_call,
                    last_recv, gnss_tx, interrupted, exc_main, exc_tel,
                    demux_vars,
                    fn_vars, gnss_link >>

\* send_nmea_to_ntrip_server: self.ntrip_socket.send(request.encode()) with
\* request = f'{nmea_sentence}\r\n'; success sets nmea_request_sent, OSError
\* and socket.timeout clear nmea_request_sent and ntrip_connected
TelSendWrite ==
    /\ pc_tel = "t_send_write"
    /\ \E sent \in BOOLEAN :
        /\ sent => CanWrite(socks[ntrip_socket])
        /\ caster_tx' = [calls |-> caster_tx.calls + 1,
                         sock |-> ntrip_socket,
                         phase |-> socks[ntrip_socket],
                         data |-> encode(tel.nmea_sentence \o CRLF),
                         ok |-> sent]
        /\ fix_written' = IF sent THEN fix_written \cup { ntrip_socket }
                         ELSE fix_written
        /\ nmea_request_sent' = sent
        /\ ntrip_connected' = IF sent THEN ntrip_connected ELSE FALSE
    /\ pc_tel' = AfterSentence(tel.binary_msgs)
    /\ UNCHANGED << ntrip_socket, gnss_socket, latest_nmea_data_valid,
                    stop_event, received_rtcm_msgs_ids, use_fix_location,
                    pc_main, server_response, tel, socks, obs, conn_call,
                    last_recv, gnss_tx, interrupted, exc_main, exc_tel,
                    demux_vars,
                    fn_vars, gnss_link >>

\* for binary_msg in binary_msgs: self.parse_novatel_binary(binary_msg);
\* resp.decode() raises UnicodeDecodeError, which no handler catches
TelBinary ==
    /\ pc_tel = "t_binary"
    /\ LET raises == \E k \in 1..Len(tel.binary_msgs) :
                        parse_novatel_binary(tel.binary_msgs[k]).level
                            = "UnicodeDecodeError"
       IN  /\ pc_tel' = IF raises THEN "t_dead" ELSE "t_top"
           /\ exc_tel' = IF raises THEN "UnicodeDecodeError" ELSE exc_tel
    /\ UNCHANGED << fields, pc_main, server_response, tel, socks, obs,
                    conn_call, last_recv, gnss_tx, caster_tx, interrupted,
                    exc_main, demux_vars,
                    fn_vars, gnss_link, fix_written >>

(***************************************************************************)
(* The bridge.                                                             *)
(***************************************************************************)
MainStep ==
    \/ RunConnectGnss
    \/ RunConfigureGnss
    \/ RunStartThread
    \/ LoopTop
    \/ CnCreate
    \/ CnConnect
    \/ CnSend
    \/ CnRecv
    \/ ChkValid
    \/ ChkSent
    \/ RdRecv
    \/ RdForward
    \/ FinStop
    \/ FinJoin
    \/ FinDisconnect

TelStep ==
    \/ TelTop
    \/ TelRecv
    \/ TelSendCheck
    \/ TelSendWrite
    \/ TelBinary

Next == MainStep \/ TelStep \/ Interrupt

Spec == Init /\ [][Next]_vars

\* Both threads are scheduled again and again: every blocking call of
\* either has a timeout (settimeout(6), settimeout(5)) and every sleep is
\* finite.  The interrupt is not forced.
FairSpec == Spec /\ WF_vars(MainStep) /\ WF_vars(TelStep)

(***************************************************************************)
(* split_data applied to generated buffers.                                *)
(***************************************************************************)
\* what a generated payload is assembled from: a zero byte, and the byte
\* strings split_data searches for
Pieces == { << 0 >>, ascii_start, binary_header, CRLF }

RECURSIVE Assemblies(_)
Assemblies(n) ==
    IF n = 0 THEN { << >> }
    ELSE LET shorter == Assemblies(n - 1)
         IN  shorter \cup { a \o p : a \in shorter, p \in Pieces }

ZeroBytes(k) == [i \in 1..k |-> 0]

\* 36 payload bytes: an assembly, filled up with zero bytes
Payloads36 == { a \o ZeroBytes(36 - Len(a)) : a \in Assemblies(MaxPieces) }

\* a sentence: '$GP', a body, CRLF
SentenceBodies ==
    { << >>, << 71, 71, 65, COMMA, 49 >>, << 65, CR >>, CRLF, ascii_start,
      binary_header }
Sentences == { ascii_start \o b \o CRLF : b \in SentenceBodies }

DemuxInputs ==
    [p1 : Payloads36, sentence : Sentences, p2 : Assemblies(MaxPieces)]

DemuxBuffer(in) ==
    binary_header \o in.p1 \o in.sentence \o binary_header \o in.p2

DemuxInit ==
    /\ InitFields
    /\ use_fix_location = FALSE
    /\ demux_in \in DemuxInputs
    /\ demux_out = NoDemuxOut
    /\ fn_in = NoFnIn
    /\ fn_out = NoFnOut

DemuxApply ==
    /\ ~demux_out.done
    /\ LET result == split_data(DemuxBuffer(demux_in))
       IN  demux_out' = [done |-> TRUE, ascii_msgs |-> result[1],
                         binary_msgs |-> result[2]]
    /\ UNCHANGED << fields, pc_main, pc_tel, server_response, tel, socks,
                    obs, conn_call, last_recv, gnss_tx, caster_tx,
                    interrupted, exc_main, exc_tel, demux_in, fn_vars,
                    gnss_link, fix_written >>

DemuxSpec == DemuxInit /\ [][DemuxApply]_vars

(***************************************************************************)
(* One function of the program applied to one generated argument.          *)
(***************************************************************************)
\* buffers for split_data: up to MaxPieces + 2 pieces
Buffers == Assemblies(MaxPieces + 2)

SplitInputs == { [op |-> "split_data", data |-> b] : b \in Buffers }

\* texts for field 6 of a sentence, as code points: '1', '0', '', 'x', '+2',
\* '-1', ' 2 ', '1.5', '00', '1_0', '_1', '1__0', '+', '-0', and the
\* Arabic-Indic digits three and zero
QualityTexts ==
    { << 49 >>, << 48 >>, << >>, << 120 >>, << 43, 50 >>, << 45, 49 >>,
      << 32, 50, 32 >>, << 49, 46, 53 >>, << 48, 48 >>, << 49, 95, 48 >>,
      << 95, 49 >>, << 49, 95, 95, 48 >>, << 43 >>, << 45, 48 >>,
      << 1635 >>, << 1632 >> }

\* the number of fields of a generated sentence
FieldCounts == { 1, 6, 7, 13, 14, 15, 16 }

\* n fields joined by ',': field 0 is '$GPGGA', field 6 is quality, every
\* other field is 'A'
RECURSIVE JoinFields(_, _)
JoinFields(n, quality) ==
    LET field == IF n = 1 THEN << 36 >> \o GPGGA
                 ELSE IF n = 7 THEN quality
                 ELSE << 65 >>
    IN  IF n = 1 THEN field
        ELSE JoinFields(n - 1, quality) \o << COMMA >> \o field

ValidInputs ==
    { [op |-> "is_gpgga_data_valid", nmea_sentence |-> JoinFields(n, q),
       count |-> n, quality |-> q] : n \in FieldCounts, q \in QualityTexts }

\* the four bytes at offset 28 of a generated frame
ResponseIds ==
    { << 1, 0, 0, 0 >>, << 0, 0, 0, 0 >>, << 31, 0, 0, 0 >>,
      << 1, 1, 0, 0 >>, << 0, 1, 0, 0 >>, << 1, 0, 0, 128 >> }

\* response texts: '', 'OK', the two bytes of U+00E9, and two byte strings
\* that are not UTF-8
ResponseTexts ==
    { << >>, << 79, 75 >>, << 195, 169 >>, << 211, 0 >>, << 255 >> }

Checksums == { << 1, 2, 3, 4 >>, << 0, 0, 0, 0 >> }

\* header, 24 bytes, response id, response text, checksum
ParseInputs ==
    { [op |-> "parse_novatel_binary",
       data |-> binary_header \o ZeroBytes(24) \o id \o text \o sum,
       id |-> id, text |-> text] :
         id \in ResponseIds, text \in ResponseTexts, sum \in Checksums }

\* configured fixed positions: both hemispheres, whole and fractional
\* degrees, less than one degree from the equator and from Greenwich
Latitudes ==
    { 0, 300000, -300000, 33 * UnitsPerDegree + 300000,
      -(33 * UnitsPerDegree + 300000), fix_latitude, -fix_latitude,
      9 * UnitsPerDegree + 5, -(9 * UnitsPerDegree + 5),
      -(89 * UnitsPerDegree + 599999), -(45 * UnitsPerDegree) }

Longitudes ==
    { 0, 300000, -300000, fix_longitude, -fix_longitude,
      151 * UnitsPerDegree + 126000, -(151 * UnitsPerDegree + 126000),
      -(7 * UnitsPerDegree + 5) }

GenerateInputs ==
    { [op |-> "generate_gga_sentence", latitude |-> lat, longitude |-> lon,
       current_time |-> t] :
         lat \in Latitudes, lon \in Longitudes, t \in ClockReadings }

FnInputs == SplitInputs \cup ValidInputs \cup ParseInputs \cup GenerateInputs

FnInit ==
    /\ InitFields
    /\ use_fix_location = FALSE
    /\ demux_in = NoDemuxIn
    /\ demux_out = NoDemuxOut
    /\ fn_in \in FnInputs
    /\ fn_out = NoFnOut

ApplySplitData ==
    /\ fn_in.op = "split_data"
    /\ ~fn_out.done
    /\ LET result == split_data(fn_in.data)
       IN  fn_out' = [done |-> TRUE, ascii_msgs |-> result[1],
                      binary_msgs |-> result[2]]
    /\ UNCHANGED << fields, pc_main, pc_tel, server_response, tel, socks,
                    obs, conn_call, last_recv, gnss_tx, caster_tx,
                    interrupted, exc_main, exc_tel, gnss_link, demux_vars,
                    fn_in, fix_written >>

ApplyIsGpggaDataValid ==
    /\ fn_in.op = "is_gpgga_data_valid"
    /\ ~fn_out.done
    /\ fn_out' = [done |-> TRUE,
                  valid |-> is_gpgga_data_valid(fn_in.nmea_sentence)]
    /\ UNCHANGED << fields, pc_main, pc_tel, server_response, tel, socks,
                    obs, conn_call, last_recv, gnss_tx, caster_tx,
                    interrupted, exc_main, exc_tel, gnss_link, demux_vars,
                    fn_in, fix_written >>

ApplyParseNovatelBinary ==
    /\ fn_in.op = "parse_novatel_binary"
    /\ ~fn_out.done
    /\ LET event == parse_novatel_binary(fn_in.data)
       IN  fn_out' = [done |-> TRUE, level |-> event.level,
                      resp |-> event.resp]
    /\ UNCHANGED << fields, pc_main, pc_tel, server_response, tel, socks,
                    obs, conn_call, last_recv, gnss_tx, caster_tx,
                    interrupted, exc_main, exc_tel, gnss_link, demux_vars,
                    fn_in, fix_written >>

ApplyGenerateGgaSentence ==
    /\ fn_in.op = "generate_gga_sentence"
    /\ ~fn_out.done
    /\ fn_out' = [done |-> TRUE,
                  sentence |-> generate_gga_sentence(fn_in.latitude,
                                                     fn_in.longitude,
                                                     fix_altitude,
                                                     fn_in.current_time)]
    /\ UNCHANGED << fields, pc_main, pc_tel, server_response, tel, socks,
                    obs, conn_call, last_recv, gnss_tx, caster_tx,
                    interrupted, exc_main, exc_tel, gnss_link, demux_vars,
                    fn_in, fix_written >>

FnNext ==
    \/ ApplySplitData
    \/ ApplyIsGpggaDataValid
    \/ ApplyParseNovatelBinary
    \/ ApplyGenerateGgaSentence

FnSpec == FnInit /\ [][FnNext]_vars

(***************************************************************************)
(* Properties.                                                             *)
(***************************************************************************)
\* the sentence of a write to the caster, without the CRLF appended to it
WrittenSentence == Slice(caster_tx.data, 0, Len(caster_tx.data) - Len(CRLF))

\* the GGA segments the demultiplexer can cut out of a telemetry chunk
ReceiverGgaSegments ==
    { FirstGpgga(split_data(m)[1]) : m \in TelemetryChunks } \ { << >> }

\* C1: in live mode every sentence handed to send_nmea_to_ntrip_server, and
\* every sentence written to the caster socket, is a GGA segment of a
\* received chunk that is_gpgga_data_valid accepts; an invalid sentence is
\* never written.
C1_LiveUploadsAreValid ==
    ~use_fix_location =>
        /\ pc_tel \in { "t_send_check", "t_send_write" } =>
              /\ is_gpgga_data_valid(tel.nmea_sentence)
              /\ encode(tel.nmea_sentence) \in ReceiverGgaSegments
        /\ caster_tx.calls > 0 =>
              /\ StartsWith(caster_tx.data, CRLF, Len(WrittenSentence))
              /\ WrittenSentence \in ReceiverGgaSegments
              /\ decode(WrittenSentence).ok
              /\ is_gpgga_data_valid(decode(WrittenSentence).str)

C1_Witness ==
    /\ ~use_fix_location
    /\ caster_tx.calls > 0
    /\ caster_tx.ok
    /\ nmea_request_sent
    /\ is_gpgga_data_valid(decode(WrittenSentence).str)

\* a step of the relay loop that calls ntrip_socket.recv for corrections
CasterReadStep == last_recv' # last_recv /\ last_recv'.kind # "none"

\* C2: the relay loop reads corrections only in an iteration in which it
\* saw the caster connected, latest_nmea_data_valid true and
\* nmea_request_sent true; seeing either flag false it goes back to the top
\* of the loop without reading.
C2_ReadOnlyAfterFixSent ==
    /\ [](pc_main = "rd_recv" => obs.conn /\ obs.valid /\ obs.sent)
    /\ [][CasterReadStep => pc_main = "rd_recv"]_vars
    /\ [][(pc_main = "chk_valid" /\ pc_main' # pc_main
             /\ ~latest_nmea_data_valid)
            => (pc_main' \in { "loop_top", "fin_stop" }
                  /\ ~CasterReadStep)]_vars
    /\ [][(pc_main = "chk_sent" /\ pc_main' # pc_main /\ ~nmea_request_sent)
            => (pc_main' \in { "loop_top", "fin_stop" }
                  /\ ~CasterReadStep)]_vars

C2_Witness ==
    /\ pc_main = "rd_recv"
    /\ obs.conn /\ obs.valid /\ obs.sent
    /\ ~nmea_request_sent

\* C3: every non-empty chunk a caster read returns is passed to
\* gnss_socket.send once and unchanged, whether or not it starts with the
\* RTCM preamble and whether or not it decodes; nothing else is passed.
C3_EveryChunkForwarded ==
    /\ [][(pc_main = "rd_recv" /\ CasterReadStep /\ last_recv'.kind = "data")
            => (pc_main' = "rd_forward"
                  /\ last_recv'.data # << >>
                  /\ server_response' = last_recv'.data)]_vars
    /\ [][(pc_main = "rd_forward" /\ pc_main' = "loop_top")
            => (gnss_tx'.calls = 1 /\ gnss_tx'.data = last_recv.data)]_vars
    /\ [][(gnss_tx' # gnss_tx /\ gnss_tx'.calls > 0)
            => (pc_main = "rd_forward" /\ gnss_tx'.calls = gnss_tx.calls + 1
                  /\ gnss_tx.calls = 0)]_vars

C3_Witness ==
    /\ gnss_tx.calls = 1
    /\ gnss_tx.data = TEXT_CHUNK
    /\ ~is_rtcm_data(gnss_tx.data)

\* C4 (as claimed): the relay loop is left only on an external interrupt.
C4_LoopLeftOnlyOnInterrupt == pc_main \in FinallyPcs => interrupted

\* the caster session has dropped while run() is in its loop: the peer has
\* closed the current socket, or the flag of a connected session was cleared
CasterDropped ==
    /\ pc_main \in LoopPcs
    /\ ntrip_socket # 0
    /\ \/ socks[ntrip_socket] = "eof"
       \/ socks[ntrip_socket] = "ok" /\ ~ntrip_connected

\* C5 (as claimed): whenever the caster connection drops while the loop
\* runs, the loop eventually calls connect_ntrip_server again, unless the
\* loop is left or the telemetry thread has ended first.
C5_DropLeadsToReconnect ==
    CasterDropped ~> \/ pc_main = "cn_create"
                     \/ pc_main \notin LoopPcs
                     \/ pc_tel \in TelEndedPcs

\* C6 (as claimed): the telemetry thread ends only after the stop signal.
C6_TelemetryEndsOnlyOnStop == pc_tel \in TelEndedPcs => stop_event

\* a step in which connect_ntrip_server returns or raises
ConnectEnds == conn_call.ret = "pending" /\ conn_call'.ret \notin { "pending", "none" }

\* C7: connect_ntrip_server returns True and sets ntrip_connected exactly
\* when the TCP connect succeeded and the response chunk contains
\* 'ICY 200 OK', 'HTTP/1.0 200 OK' or 'HTTP/1.1 200 OK'; after a connect
\* error, a read error or any other response it returns False and
\* ntrip_connected is still false.
C7_ConnectSucceedsIffToken ==
    [][ConnectEnds =>
        LET c == conn_call'
            token == /\ c.resp = "data"
                     /\ \/ Contains(c.body,
                              << 73, 67, 89, 32, 50, 48, 48, 32, 79, 75 >>)
                        \/ Contains(c.body,
                              << 72, 84, 84, 80, 47, 49, 46, 48, 32, 50, 48,
                                 48, 32, 79, 75 >>)
                        \/ Contains(c.body,
                              << 72, 84, 84, 80, 47, 49, 46, 49, 32, 50, 48,
                                 48, 32, 79, 75 >>)
        IN  /\ c.ret = "true" <=> (c.tcp = "ok" /\ token)
            /\ (c.tcp = "error" \/ c.resp # "none")
                  => c.ret \in { "true", "false" }
            /\ c.ret = "true" => ntrip_connected' /\ ~ntrip_connected
            /\ c.ret = "false" => ~ntrip_connected' /\ ~ntrip_connected
       ]_vars

C7_Witness ==
    /\ conn_call.ret = "true"
    /\ conn_call.body # << >>
    /\ ntrip_connected
    /\ socks[ntrip_socket] = "ok"

\* C8: send_nmea_to_ntrip_server with the session connected makes one write
\* and sets nmea_request_sent exactly when it succeeds; a failed write
\* clears ntrip_connected and nmea_request_sent and is not repeated; with
\* the session not connected nothing is written and no flag changes.
C8_SendFixOutcome ==
    /\ [][(pc_tel = "t_send_check" /\ pc_tel' # pc_tel)
            => /\ UNCHANGED << ntrip_connected, nmea_request_sent,
                               latest_nmea_data_valid, caster_tx >>
               /\ ntrip_connected <=> pc_tel' = "t_send_write"]_vars
    /\ [][(pc_tel = "t_send_write" /\ pc_tel' # pc_tel)
            => /\ caster_tx'.calls = 1
               /\ nmea_request_sent' <=> caster_tx'.ok
               /\ caster_tx'.ok => ntrip_connected' = ntrip_connected
               /\ ~caster_tx'.ok => ~ntrip_connected'
               /\ pc_tel' # "t_send_check"]_vars
    /\ [][caster_tx'.calls > caster_tx.calls => pc_tel = "t_send_write"]_vars

C8_Witness ==
    /\ caster_tx.calls = 1
    /\ ~caster_tx.ok
    /\ ~ntrip_connected
    /\ ~nmea_request_sent
    /\ pc_tel # "t_send_write"

\* C9: after an interrupt the finally clause sets the stop signal, then
\* waits for the telemetry thread to end, and only then disconnects the
\* caster session (flag false, socket closed); it completes, and no fix is
\* written to the caster after the disconnect.
C9_ShutdownOrder ==
    /\ [](pc_main \in { "fin_join", "fin_disconnect", "done" } => stop_event)
    /\ [](pc_main \in { "fin_disconnect", "done" } => pc_tel \in TelEndedPcs)
    /\ [](\A id \in SocketIds : socks[id] = "closed" => pc_main = "done")
    /\ [](pc_main = "done" =>
            /\ ~ntrip_connected
            /\ ntrip_socket # 0 => socks[ntrip_socket] = "closed")
    /\ [][pc_main = "done" => caster_tx' = caster_tx]_vars
    /\ (interrupted ~> pc_main = "done")

C9_Witness ==
    /\ interrupted
    /\ pc_main = "done"
    /\ pc_tel = "t_exit"
    /\ ntrip_socket # 0
    /\ socks[ntrip_socket] = "closed"
    /\ stop_event
    /\ ~ntrip_connected

\* C10 (as claimed): for header + 36 arbitrary bytes, a sentence '$GP...'
\* ending in CRLF, header + arbitrary bytes, split_data returns the
\* sentence as the one ASCII segment and two binary segments.
C10_AnyPayload ==
    demux_out.done =>
        /\ demux_out.ascii_msgs = << demux_in.sentence >>
        /\ Len(demux_out.binary_msgs) = 2
        /\ \A k \in 1..Len(demux_out.binary_msgs) :
              StartsWith(demux_out.binary_msgs[k], binary_header, 0)

\* neither payload contains a marker, and the sentence holds no CRLF but
\* the one that ends it
MarkerFree(in) ==
    /\ ~Contains(in.p1, binary_header)
    /\ ~Contains(in.p1, ascii_start)
    /\ ~Contains(in.p2, binary_header)
    /\ ~Contains(in.p2, ascii_start)
    /\ Find(in.sentence, CRLF, 0) = Len(in.sentence) - Len(CRLF)

\* C10 (amended): if neither payload contains the binary header or '$GP'
\* and the sentence contains no CRLF before the one that ends it,
\* split_data returns the sentence with its CRLF as the one ASCII segment
\* and the two frames, header and payload, as the binary segments, in order.
C10_MarkerFreePayload ==
    (demux_out.done /\ MarkerFree(demux_in)) =>
        /\ demux_out.ascii_msgs = << demux_in.sentence >>
        /\ demux_out.binary_msgs =
              << binary_header \o demux_in.p1, binary_header \o demux_in.p2 >>

C10_Witness ==
    /\ demux_out.done
    /\ MarkerFree(demux_in)
    /\ Contains(demux_in.p1, CRLF)
    /\ Contains(demux_in.sentence, binary_header)
    /\ demux_in.p2 # << >>
    /\ Len(demux_out.binary_msgs) = 2

\* no marker starts at a position lo <= q < hi of data
NoMarkerIn(data, lo, hi) ==
    \A q \in lo..(hi - 1) :
        /\ ~StartsWith(data, binary_header, q)
        /\ ~StartsWith(data, ascii_start, q)

\* The segments lie in data from pos on as disjoint spans: each list in its
\* order, the next span being the earlier of the two list heads, an ASCII
\* segment starting with '$GP' and a binary one with the header.  Bytes
\* between pos and the next span are left out.  With anywhere = FALSE bytes
\* may be left out only in front of a span; with anywhere = TRUE also after
\* the last span, and no marker starts at a byte left out.
RECURSIVE SpansFrom(_, _, _, _, _)
SpansFrom(data, pos, ascii_msgs, binary_msgs, anywhere) ==
    IF ascii_msgs = << >> /\ binary_msgs = << >>
    THEN \/ pos = Len(data)
         \/ anywhere /\ NoMarkerIn(data, pos, Len(data))
    ELSE LET pa == IF ascii_msgs = << >> THEN -1
                   ELSE Find(data, ascii_msgs[1], pos)
             pb == IF binary_msgs = << >> THEN -1
                   ELSE Find(data, binary_msgs[1], pos)
             ascii_next == pa # -1 /\ (pb = -1 \/ pa < pb)
         IN  IF pa = -1 /\ pb = -1 THEN FALSE
             ELSE IF ascii_next
             THEN /\ StartsWith(ascii_msgs[1], ascii_start, 0)
                  /\ anywhere => NoMarkerIn(data, pos, pa)
                  /\ SpansFrom(data, pa + Len(ascii_msgs[1]),
                               Tail(ascii_msgs), binary_msgs, anywhere)
             ELSE /\ StartsWith(binary_msgs[1], binary_header, 0)
                  /\ anywhere => NoMarkerIn(data, pos, pb)
                  /\ SpansFrom(data, pb + Len(binary_msgs[1]), ascii_msgs,
                               Tail(binary_msgs), anywhere)

\* C11 (as claimed): the segments split_data returns are disjoint spans of
\* the buffer in increasing order, binary ones starting with the header and
\* ASCII ones with '$GP', and a byte is left out only before or between
\* spans.
C11_LeftOutBeforeOrBetween ==
    (fn_out.done /\ fn_in.op = "split_data") =>
        SpansFrom(fn_in.data, 0, fn_out.ascii_msgs, fn_out.binary_msgs,
                  FALSE)

\* C11 (amended): the segments split_data returns are disjoint spans of the
\* buffer in increasing order, binary ones starting with the header and
\* ASCII ones with '$GP'; a byte is left out only if it lies before,
\* between or after the spans, and no marker starts at a byte left out.
C11_DisjointOrderedSpans ==
    (fn_out.done /\ fn_in.op = "split_data") =>
        SpansFrom(fn_in.data, 0, fn_out.ascii_msgs, fn_out.binary_msgs,
                  TRUE)

C11_Witness ==
    /\ fn_out.done
    /\ fn_in.op = "split_data"
    /\ Len(fn_out.ascii_msgs) = 1
    /\ Len(fn_out.binary_msgs) = 1
    /\ fn_in.data[Len(fn_in.data)] = 0
    /\ fn_out.ascii_msgs[1][Len(fn_out.ascii_msgs[1])] = LF
    /\ Len(fn_out.ascii_msgs[1]) + Len(fn_out.binary_msgs[1])
          = Len(fn_in.data) - 1

\* the texts of QualityTexts that int() turns into a number other than 0:
\* '1', '+2', '-1', ' 2 ', '1_0' and the Arabic-Indic three
NonzeroIntegerTexts ==
    { << 49 >>, << 43, 50 >>, << 45, 49 >>, << 32, 50, 32 >>,
      << 49, 95, 48 >>, << 1635 >> }

\* C12: is_gpgga_data_valid returns True exactly when the sentence has 14 or
\* 15 fields and field 6 is the text of an integer other than zero; for
\* every other sentence it returns False.
C12_ValidIffCountAndQuality ==
    (fn_out.done /\ fn_in.op = "is_gpgga_data_valid") =>
        /\ fn_out.valid \in BOOLEAN
        /\ fn_out.valid <=> /\ fn_in.count \in { 14, 15 }
                            /\ fn_in.quality \in NonzeroIntegerTexts

C12_Witness ==
    /\ fn_out.done
    /\ fn_in.op = "is_gpgga_data_valid"
    /\ fn_in.count = 15
    /\ fn_in.quality = << 32, 50, 32 >>
    /\ fn_out.valid

\* C13 (as claimed): parse_novatel_binary logs a frame as the OK response
\* exactly when the four bytes at offset 28 are 01 00 00 00 and as a warning
\* for every other value, and the text it reports is the frame without its
\* first 32 and its last 4 bytes.
C13_ClassifiesByResponseId ==
    (fn_out.done /\ fn_in.op = "parse_novatel_binary") =>
        /\ fn_out.level = "debug" <=> fn_in.id = << 1, 0, 0, 0 >>
        /\ fn_out.level = "warning" <=> fn_in.id # << 1, 0, 0, 0 >>
        /\ encode(fn_out.resp) = fn_in.text

\* C14: latest_nmea_data_valid and nmea_request_sent are changed only by
\* steps of the telemetry thread, never by a step of run(); the counters of
\* received_rtcm_msgs_ids are changed only by steps of run(), never by a
\* step of the telemetry thread.
C14_SingleWriter ==
    /\ [][(MainStep \/ Interrupt)
            => UNCHANGED << latest_nmea_data_valid, nmea_request_sent >>]_vars
    /\ [][TelStep => UNCHANGED received_rtcm_msgs_ids]_vars
    /\ [][(latest_nmea_data_valid' # latest_nmea_data_valid
             \/ nmea_request_sent' # nmea_request_sent)
            => (pc_tel \in { "t_recv", "t_send_write" } /\ pc_tel' # pc_tel
                  /\ pc_main' = pc_main)]_vars
    /\ [][received_rtcm_msgs_ids' # received_rtcm_msgs_ids
            => (pc_main = "rd_recv" /\ pc_main' = "rd_forward"
                  /\ pc_tel' = pc_tel)]_vars

C14_Witness ==
    /\ latest_nmea_data_valid
    /\ nmea_request_sent
    /\ received_rtcm_msgs_ids[1005] = 1
    /\ pc_main = "cn_connect"
    /\ pc_tel = "t_send_write"

\* received_rtcm_msgs_ids with the counter of one message id one higher
CountedOnce(id) == [received_rtcm_msgs_ids EXCEPT ![id] = @ + 1]

\* C15: no counter of received_rtcm_msgs_ids ever decreases; the counters
\* change only in a caster read that returned a chunk with first byte 0xD3
\* which RTCMReader.parse decoded, and then the counter of the decoded
\* message id, and no other, grows by one.
C15_CountersCountDecodedRtcm ==
    /\ [][\A id \in RtcmMsgIds :
            received_rtcm_msgs_ids'[id] >= received_rtcm_msgs_ids[id]]_vars
    /\ [][received_rtcm_msgs_ids' # received_rtcm_msgs_ids
            => /\ pc_main = "rd_recv"
               /\ last_recv'.kind = "data"
               /\ last_recv'.data # << >>
               /\ last_recv'.data[1] = 211
               /\ last_recv'.parsed \in RtcmMsgIds
               /\ received_rtcm_msgs_ids' = CountedOnce(last_recv'.parsed)
       ]_vars
    /\ [][(pc_main = "rd_recv" /\ last_recv'.kind = "data"
             /\ last_recv'.data[1] = 211 /\ last_recv'.parsed # 0)
            => received_rtcm_msgs_ids' = CountedOnce(last_recv'.parsed)]_vars

C15_Witness ==
    /\ received_rtcm_msgs_ids[1077] = 1
    /\ received_rtcm_msgs_ids[1005] = 0
    /\ last_recv.kind = "data"
    /\ last_recv.parsed = 1077
    /\ pc_main = "rd_forward"

\* a step in which a peer does not do its part: the receiver refuses the
\* connection or delivers no sentence to upload, the caster refuses the
\* connection, the request or the handshake, does not take the fix or does
\* not reply with a decodable RTCM chunk while fewer than MaxCount have been
\* counted, or the operator interrupts
PeerFails ==
    \/ pc_main = "connect_gnss" /\ gnss_link' = "unconnected"
    \/ pc_main = "cn_connect" /\ pc_main' # "cn_send"
    \/ pc_main = "cn_send" /\ pc_main' # "cn_recv"
    \/ pc_main = "cn_recv" /\ ~ntrip_connected'
    \/ pc_main = "rd_recv" /\ pc_main' # pc_main
          /\ ~(last_recv'.kind = "data" /\ last_recv'.parsed # 0)
          /\ received_rtcm_msgs_ids[1005] + received_rtcm_msgs_ids[1077]
                < MaxCount
    \/ pc_tel = "t_recv" /\ pc_tel' # "t_send_check"
          /\ (pc_tel' # pc_tel \/ tel' # tel \/ gnss_link' # gnss_link)
    \/ pc_tel = "t_send_write" /\ pc_tel' # pc_tel /\ ~caster_tx'.ok
    \/ interrupted' /\ ~interrupted

\* the run cannot go on: run() or the task was left by an exception or the
\* interrupt, the receiver is gone, or every caster socket of the model has
\* been used
RunOver ==
    \/ interrupted
    \/ exc_main # "none"
    \/ exc_tel # "none"
    \/ pc_main = "aborted"
    \/ gnss_link = "down"
    \/ pc_main = "cn_create" /\ \A id \in SocketIds : socks[id] # "none"

\* the relay loop has seen both flags set, has read a 0xD3 chunk, counted
\* its message id and handed the same bytes to gnss_socket.send
CorrectionRelayed ==
    /\ obs.conn /\ obs.valid /\ obs.sent
    /\ last_recv.kind = "data"
    /\ last_recv.data[1] = 211
    /\ last_recv.parsed \in RtcmMsgIds
    /\ received_rtcm_msgs_ids[last_recv.parsed] >= 1
    /\ gnss_tx.calls = 1
    /\ gnss_tx.data = last_recv.data

\* C16: under fair scheduling of both threads, unless the peers fail again
\* and again or the run is over, the task sets the validity flag and
\* uploads the fix and the relay loop eventually reads a 0xD3 chunk, counts
\* its decoded message id and passes the identical bytes to the receiver
\* socket's send.
C16_EndToEndProgress ==
    \/ []<><<PeerFails>>_vars
    \/ <>RunOver
    \/ <>CorrectionRelayed

C16_Witness ==
    /\ CorrectionRelayed
    /\ latest_nmea_data_valid
    /\ nmea_request_sent
    /\ ~use_fix_location
    /\ pc_main = "loop_top"

\* the positions of run() before the telemetry thread exists
StartupPcs == { "connect_gnss", "configure_gnss", "start_thread", "aborted" }

\* C17: in run() the receiver connect is repeated until an attempt
\* succeeds; configure_gnss is entered only from a successful connect and
\* never a second time; the telemetry thread is started and the relay loop
\* entered only after configure_gnss has returned.
C17_StartupOrder ==
    /\ [][pc_main = "connect_gnss"
            => \/ gnss_link' = "up" /\ pc_main' = "configure_gnss"
               \/ gnss_link' = "unconnected" /\ pc_main' = "connect_gnss"]_vars
    /\ [][pc_main # "connect_gnss" => pc_main' \notin { "connect_gnss" }]_vars
    /\ [][(pc_main # "configure_gnss" /\ pc_main' = "configure_gnss")
            => (pc_main = "connect_gnss" /\ gnss_link' = "up")]_vars
    /\ [][(pc_main = "configure_gnss" /\ pc_main' # pc_main)
            => pc_main' \in { "start_thread", "aborted" }]_vars
    /\ [][pc_tel = "not_started" /\ pc_tel' # pc_tel
            => (pc_main = "start_thread" /\ pc_main' = "loop_top"
                  /\ pc_tel' = "t_top")]_vars
    /\ [][(pc_main \notin LoopPcs /\ pc_main' \in LoopPcs)
            => pc_main = "start_thread"]_vars
    /\ [](pc_main \in StartupPcs => pc_tel = "not_started")
    /\ [](pc_main \in { "configure_gnss", "start_thread" } => gnss_link = "up")

C17_Witness ==
    /\ pc_main = "loop_top"
    /\ pc_tel = "t_top"
    /\ gnss_link = "up"
    /\ gnss_socket # 0
    /\ ~ntrip_connected

\* once the thread exists no step puts a socket in gnss_socket or brings
\* the receiver connection up again, and with the connection down the task
\* is at no position where it hands on a fix
ReceiverNeverReconnected ==
    /\ [][pc_main \notin StartupPcs
            => (gnss_socket' = gnss_socket
                  /\ (gnss_link' = "up" => gnss_link = "up"))]_vars
    /\ [](gnss_link = "down"
            => pc_tel \notin { "t_send_check", "t_send_write", "t_binary" })
    /\ [][gnss_link = "down"
            => UNCHANGED << latest_nmea_data_valid, caster_tx.calls >>
                 \/ caster_tx' = NoCasterTx]_vars

\* C18: once the relay loop is entered the receiver connection is never
\* re-established, and after a receiver drop the telemetry task goes on
\* looping (it has not ended unless the stop event is set) without
\* delivering another fix.
C18_DropStallsTelemetry ==
    /\ ReceiverNeverReconnected
    /\ [](gnss_link = "down" => (pc_tel # "t_dead" /\ (pc_tel = "t_exit" => stop_event)))

\* C19: whatever happens in configure_gnss while the command block is sent
\* and the acknowledgement is read and decoded, run() goes on to start the
\* telemetry thread and enter the relay loop: configure_gnss is left only
\* to the start of the thread, and run() is never left from it.
C19_ConfigureFailureNonFatal ==
    /\ [][(pc_main = "configure_gnss" /\ pc_main' # pc_main)
            => (pc_main' = "start_thread" /\ exc_main' = "none")]_vars
    /\ [](pc_main # "aborted")

\* the step of the relay loop in which gnss_socket.send raised
ForwardFails ==
    /\ pc_main = "rd_forward"
    /\ pc_main' # pc_main
    /\ gnss_tx'.calls = gnss_tx.calls + 1
    /\ ~gnss_tx'.ok

\* C20: a send to the receiver that fails changes no session state: the
\* receiver socket, the caster socket and its connected flag, the validity
\* and fix-sent flags and the counters are as before, no socket of either
\* peer changes state, and the loop goes back to its top with the connected
\* flag as it was, so no connection attempt follows from the failure.
C20_FailedForwardChangesNothing ==
    [][ForwardFails
         => /\ UNCHANGED << gnss_socket, ntrip_socket, ntrip_connected,
                            latest_nmea_data_valid, nmea_request_sent,
                            received_rtcm_msgs_ids, stop_event, socks,
                            gnss_link >>
            /\ pc_main' = "loop_top"
            /\ exc_main' = "none"]_vars

C20_Witness ==
    /\ gnss_tx.calls = 1
    /\ ~gnss_tx.ok
    /\ is_rtcm_data(gnss_tx.data)
    /\ pc_main = "loop_top"
    /\ ntrip_connected

\* the segment split_data cut for a sentence ran to the end of the buffer:
\* it does not end with the CRLF that split_data keeps in a whole segment
Truncated(sentence) ==
    ~StartsWith(sentence, CRLF, Len(sentence) - Len(CRLF))

\* C21: a GGA sentence that split_data emits truncated is rejected by
\* is_gpgga_data_valid, so in live mode the sentence the telemetry thread
\* hands to send_nmea_to_ntrip_server, and the one it writes to the caster,
\* is never a truncated one.
C21_TruncatedNeverUploaded ==
    ~use_fix_location
        => /\ pc_tel \in { "t_send_check", "t_send_write" }
                => ~Truncated(tel.nmea_sentence)
           /\ caster_tx.calls > 0 => ~Truncated(WrittenSentence)

\* the sentences generate_gga_sentence can return for the configured position
GeneratedSentences == { Generated[current_time] : current_time \in ClockReadings }

\* the step of the telemetry thread that read a chunk with a GPGGA segment
GgaChunkRead == pc_tel = "t_recv" /\ tel.msg = << >> /\ tel'.msg # << >>

\* in fixed-location mode a chunk with a GPGGA segment sets the validity
\* flag and hands on the generated sentence, not the receiver's
FixedModeStep ==
    /\ latest_nmea_data_valid'
    /\ pc_tel' = "t_send_check"
    /\ tel'.nmea_sentence \in GeneratedSentences
    /\ encode(tel'.nmea_sentence) # tel'.msg

\* C22: in fixed-location mode every chunk that holds a GPGGA segment makes
\* the telemetry thread set latest_nmea_data_valid and hand the generated
\* sentence to send_nmea_to_ntrip_server, whatever the receiver's sentence
\* is, and latest_nmea_data_valid is never set back to false.
C22_FixedModeAlwaysUsable ==
    /\ [][(use_fix_location /\ GgaChunkRead) => FixedModeStep]_vars
    /\ [][(use_fix_location /\ latest_nmea_data_valid)
            => latest_nmea_data_valid']_vars

\* C23: on every caster connection, also one made by a reconnect, a fix has
\* been written successfully on that socket before the relay loop reads
\* corrections from it: nmea_request_sent left set by an earlier
\* connection never lets the read come first.
C23_FixBeforeFirstRead ==
    /\ [][CasterReadStep => ntrip_socket \in fix_written]_vars
    /\ [](pc_main \in { "rd_recv", "rd_forward" }
            => ntrip_socket \in fix_written)

\* the states of a caster socket whose handshake has succeeded
HandshakeDone == { "ok", "eof" }

\* C24: under every interleaving of the two threads the telemetry thread
\* writes a fix only to a caster socket whose handshake has succeeded: the
\* socket it calls send on is never one the relay loop has just created,
\* is connecting, or has not yet sent or had answered its GET request.
C24_FixOnlyOnConnectedSocket ==
    /\ caster_tx.calls > 0 => caster_tx.phase \in HandshakeDone
    /\ pc_tel = "t_send_write" => socks[ntrip_socket] \in HandshakeDone

\* the caster sockets that have been opened and that the program has not
\* closed
OpenSockets == { id \in SocketIds : socks[id] \notin { "none", "closed" } }

\* C25: at most one caster socket is open at any time: the socket held by
\* ntrip_socket has been closed when connect_ntrip_server opens another,
\* after a failed attempt and after a session marked disconnected alike.
C25_AtMostOneOpenSocket ==
    /\ [][(ntrip_socket' # ntrip_socket /\ ntrip_socket # 0)
            => socks[ntrip_socket] = "closed"]_vars
    /\ [](Cardinality(OpenSockets) <= 1)

\* C26: whenever ntrip_connected is true, ntrip_socket holds a socket, it
\* is the one whose handshake succeeded and no other socket is in that
\* state; the flag becomes true only in the step that ends a successful
\* connect_ntrip_server; ntrip_socket is replaced only while the flag is
\* false.
C26_ConnectedMeansHandshakenSocket ==
    /\ [](ntrip_connected
            => /\ ntrip_socket \in SocketIds
               /\ socks[ntrip_socket] \in HandshakeDone
               /\ \A other \in SocketIds \ { ntrip_socket } :
                     socks[other] \notin HandshakeDone)
    /\ [][(~ntrip_connected /\ ntrip_connected')
            => /\ pc_main = "cn_recv"
               /\ conn_call'.ret = "true"
               /\ handshake_ok(conn_call'.body)
               /\ UNCHANGED ntrip_socket]_vars
    /\ [][ntrip_socket' # ntrip_socket
            => (~ntrip_connected /\ ~ntrip_connected')]_vars

C26_Witness ==
    /\ ntrip_connected
    /\ ntrip_socket = 2
    /\ socks[2] = "ok"
    /\ socks[1] = "abandoned"
    /\ pc_tel = "t_send_write"

\* the text is deg_digits digits of degrees and then minutes as mm.mmmm,
\* with no sign
UnsignedAngle(text, deg_digits) ==
    /\ Len(text) = deg_digits + 7
    /\ \A k \in 1..Len(text) :
          IF k = deg_digits + 3 THEN text[k] = 46
          ELSE text[k] \in 48..57

\* C27: for every configured position generate_gga_sentence writes the
\* latitude as 2 digits of degrees and the longitude as 3, each followed by
\* minutes that are not negative, with no sign; the hemisphere letter alone
\* carries the sign, and a negative coordinate gives the digits of its
\* absolute value.
C27_SignOnlyInHemisphere ==
    (fn_in.op = "generate_gga_sentence" /\ fn_out.done)
        => LET f == split(fn_out.sentence)
               mirror == split(generate_gga_sentence(Abs(fn_in.latitude),
                                                     Abs(fn_in.longitude),
                                                     fix_altitude,
                                                     fn_in.current_time))
           IN  /\ UnsignedAngle(f[3], 2)
               /\ UnsignedAngle(f[5], 3)
               /\ f[3] = mirror[3]
               /\ f[5] = mirror[5]
               /\ f[4] = IF fn_in.latitude >= 0 THEN << 78 >> ELSE << 83 >>
               /\ f[6] = IF fn_in.longitude >= 0 THEN << 69 >> ELSE << 87 >>

=============================================================================
